---- MODULE Spec2Model ----
(***************************************************************************)
(* Prompt construction and response extraction of the EyePop client        *)
(* (app/lib/eyepop-client.ts): buildComprehensivePrompt,                    *)
(* createVisualIntelligencePop and parseVisualIntelligenceResponse.         *)
(* Text is modelled by TLA+ strings, character by character.                *)
(***************************************************************************)
EXTENDS Integers, Sequences, FiniteSets, TLC

VARIABLES
    questions,          \* argument of the createVisualIntelligencePop call
    productType,        \* argument: a JS value, undefined or a string
    checkboxQuestions,  \* argument: the list of enabled option names
    categories,         \* the local categories of buildComprehensivePrompt at return
    pop,                \* the PopDefinition returned (no components before a call)
    processedResults,   \* argument of the parseVisualIntelligenceResponse call
    parsedResponse,     \* its local parsedResponse: [text, extractedData]
    combinedText,       \* its local combinedText
    parsePc,            \* position inside parseVisualIntelligenceResponse
    classIdx,           \* number of class items the for loop has consumed
    lines,              \* the fallback path's non-blank lines
    lineIdx,            \* number of lines the fallback loop has consumed
    usedFallback,       \* whether this call entered the fallback branch
    isConnected,        \* the client's field isConnected
    endpointCalls,      \* the calls the SDK endpoint has received, in order
    caller,             \* the public method the caller invoked
    images,             \* argument of the processBatch call
    outcomes,           \* what the vision service does for each image
    imageIdx,           \* number of images the batch loop has taken
    batchResults,       \* the local results of processBatch
    clientPc,           \* position inside processBatch / processImage...
    callResult,         \* completion of the current processImage... call
    builds,             \* the buildComprehensivePrompt calls made so far
    callCount,          \* public methods called on the client so far
    testResult,         \* what EyePopClient.testConnection returned
    requestBody,        \* export route: the parsed request body
    adminReplies,       \* export route: what the Shopify Admin API does per item
    exportIdx,          \* export route: the loop variable i
    exportResults,      \* export route: the local results
    successCount,       \* export route: the local successCount
    failCount,          \* export route: the local failCount
    graphqlCalls,       \* export route: the mutations sent to the Admin API
    exportResponse,     \* export route: the response returned
    exportPc,           \* export route: position inside the action
    routeVersion,       \* image route: which version of the action runs
    formData,           \* image route: the multipart fields and the environment
    eyepop,             \* image route: what the vision service does
    clientCalls,        \* image route: the EyePopClient methods called, in order
    routeResponse,      \* image route: the response returned
    routePc,            \* image route: position inside the action
    webhookRequest,     \* webhooks: the request and what it is about
    authenticateCalls,  \* webhooks: number of authenticate.webhook calls
    sessionOps,         \* webhooks: the operations on db.session, in order
    webhookResponse,    \* webhooks: the Response returned or thrown
    webhookPc,          \* webhooks: position inside the action
    selectedFiles,      \* wizard: state selectedFiles (the files' names)
    authCredentials,    \* wizard: state authCredentials
    serverReplies,      \* wizard: what /api/eyepop-process answers per file
    processingItems,    \* wizard: state processingItems
    allProcessedResults, \* wizard: the local allProcessedResults
    analysisResults,    \* wizard: state analysisResults
    isProcessing,       \* wizard: state isProcessing
    isAuthenticated,    \* wizard: state isAuthenticated
    currentStep,        \* wizard: state currentStep
    fetches,            \* wizard: the files posted to the server, in order
    fileIdx,            \* wizard: the loop variable i
    wizardPc            \* wizard: position inside handleStartProcessing

promptVars == <<questions, productType, checkboxQuestions, categories, pop>>
parseVars == <<processedResults, parsedResponse, combinedText, parsePc, classIdx,
               lines, lineIdx, usedFallback>>
clientVars == <<isConnected, endpointCalls, caller, images, outcomes, imageIdx,
                batchResults, clientPc, callResult, builds>>
exportVars == <<requestBody, adminReplies, exportIdx, exportResults, successCount,
                failCount, graphqlCalls, exportResponse, exportPc>>
routeVars == <<routeVersion, formData, eyepop, clientCalls, routeResponse, routePc>>
webhookVars == <<webhookRequest, authenticateCalls, sessionOps, webhookResponse,
                 webhookPc>>
wizardVars == <<selectedFiles, authCredentials, serverReplies, processingItems,
                allProcessedResults, analysisResults, isProcessing, isAuthenticated,
                currentStep, fetches, fileIdx, wizardPc>>
appVars == <<callCount, testResult, exportVars, routeVars, webhookVars, wizardVars>>
vars == <<questions, productType, checkboxQuestions, categories, pop,
          processedResults, parsedResponse, combinedText, parsePc, classIdx,
          lines, lineIdx, usedFallback,
          isConnected, endpointCalls, caller, images, outcomes, imageIdx,
          batchResults, clientPc, callResult, builds,
          callCount, testResult,
          requestBody, adminReplies, exportIdx, exportResults, successCount,
          failCount, graphqlCalls, exportResponse, exportPc,
          routeVersion, formData, eyepop, clientCalls, routeResponse, routePc,
          webhookRequest, authenticateCalls, sessionOps, webhookResponse, webhookPc,
          selectedFiles, authCredentials, serverReplies, processingItems,
          allProcessedResults, analysisResults, isProcessing, isAuthenticated,
          currentStep, fetches, fileIdx, wizardPc>>

----------------------------------------------------------------------------
(* JS values: one record shape for undefined, null, strings, arrays of      *)
(* strings and numbers (a number is m / 10^e, normalised).                  *)

JSUndefined == [t |-> "undefined", s |-> "", a |-> <<>>, m |-> 0, e |-> 0]
JSNull == [t |-> "null", s |-> "", a |-> <<>>, m |-> 0, e |-> 0]
JSNaN == [t |-> "NaN", s |-> "", a |-> <<>>, m |-> 0, e |-> 0]
JSString(str) == [t |-> "string", s |-> str, a |-> <<>>, m |-> 0, e |-> 0]
JSArray(arr) == [t |-> "array", s |-> "", a |-> arr, m |-> 0, e |-> 0]
JSNumber(mant, exp) == [t |-> "number", s |-> "", a |-> <<>>, m |-> mant, e |-> exp]
\* an object or function, of which only the truthiness matters
JSObject == [t |-> "object", s |-> "", a |-> <<>>, m |-> 0, e |-> 0]

\* JS truthiness, as used by if (x), x || y and !x
Truthy(v) ==
    CASE v.t = "string" -> v.s # ""
      [] v.t = "number" -> v.m # 0
      [] v.t \in {"array", "object"} -> TRUE
      [] OTHER -> FALSE

----------------------------------------------------------------------------
(* String primitives.                                                       *)

Ch(str, i) == SubSeq(str, i, i)
From(str, i) == SubSeq(str, i, Len(str))

UpperCase == "ABCDEFGHIJKLMNOPQRSTUVWXYZ"
LowerCase == "abcdefghijklmnopqrstuvwxyz"
Digits == "0123456789"

IndexIn(alphabet, c) ==
    IF \E i \in 1..Len(alphabet) : Ch(alphabet, i) = c
    THEN CHOOSE i \in 1..Len(alphabet) : Ch(alphabet, i) = c
    ELSE 0

\* the regular expression class \s
IsSpace(c) == c \in {" ", "\t", "\n", "\r", "\f"}
\* the regular expression class \d
IsDigit(c) == IndexIn(Digits, c) > 0

LowerChar(c) == IF IndexIn(UpperCase, c) > 0 THEN Ch(LowerCase, IndexIn(UpperCase, c)) ELSE c

\* character by character; the string is halved to keep the evaluation shallow
RECURSIVE ToLowerCase(_)
ToLowerCase(str) ==
    IF str = "" THEN ""
    ELSE IF Len(str) = 1 THEN LowerChar(Ch(str, 1))
    ELSE ToLowerCase(SubSeq(str, 1, Len(str) \div 2))
            \o ToLowerCase(From(str, Len(str) \div 2 + 1))

RECURSIVE TrimStart(_)
TrimStart(str) ==
    IF str # "" /\ IsSpace(Ch(str, 1)) THEN TrimStart(From(str, 2)) ELSE str

RECURSIVE TrimEnd(_)
TrimEnd(str) ==
    IF str # "" /\ IsSpace(Ch(str, Len(str)))
    THEN TrimEnd(SubSeq(str, 1, Len(str) - 1)) ELSE str

Trim(str) == TrimEnd(TrimStart(str))

\* str.replace(/\s+/g, by)
\* positions lo..hi of str: the first space of a run becomes by, the rest of
\* the run nothing
RECURSIVE ReplaceSpaceRunsIn(_, _, _, _)
ReplaceSpaceRunsIn(str, by, lo, hi) ==
    IF lo > hi THEN ""
    ELSE IF lo = hi
         THEN IF ~IsSpace(Ch(str, lo)) THEN Ch(str, lo)
              ELSE IF lo > 1 /\ IsSpace(Ch(str, lo - 1)) THEN "" ELSE by
         ELSE ReplaceSpaceRunsIn(str, by, lo, (lo + hi) \div 2)
                 \o ReplaceSpaceRunsIn(str, by, (lo + hi) \div 2 + 1, hi)

ReplaceSpaceRuns(str, by) == ReplaceSpaceRunsIn(str, by, 1, Len(str))

\* array.join(sep)
RECURSIVE Join(_, _)
Join(arr, sep) ==
    IF Len(arr) = 0 THEN ""
    ELSE IF Len(arr) = 1 THEN arr[1]
         ELSE arr[1] \o sep \o Join(Tail(arr), sep)

\* array.includes(x)
Includes(arr, x) == \E i \in 1..Len(arr) : arr[i] = x

\* str.includes(part)
Contains(str, part) ==
    \E i \in 1..(Len(str) - Len(part) + 1) : SubSeq(str, i, i + Len(part) - 1) = part

StartsWith(str, part) == Len(part) <= Len(str) /\ SubSeq(str, 1, Len(part)) = part

----------------------------------------------------------------------------
(* Prompt builder.                                                          *)

\* the newline and indentation the template literal carries before each line
TemplateIndent == "\n         "

BuildCategories(qs, pt, cbs) ==
    (IF Truthy(pt) THEN <<"product type (this is a " \o pt.s \o " product)">> ELSE <<>>)
    \o qs
    \o (IF Includes(cbs, "productTitle")
        THEN <<"product title (compelling, SEO-friendly product title)">> ELSE <<>>)
    \o (IF Includes(cbs, "productDescription")
        THEN <<"product description (detailed description suitable for e-commerce listing)">>
        ELSE <<>>)
    \o (IF Includes(cbs, "colorVariant")
        THEN <<"color variants (primary colors and color variants visible)">> ELSE <<>>)
    \o (IF Includes(cbs, "seoDescription")
        THEN <<"SEO description (SEO-optimized meta description under 160 characters)">>
        ELSE <<>>)
    \o (IF Includes(cbs, "productTags")
        THEN <<"product tags (5-10 relevant product tags and keywords, comma-separated)">>
        ELSE <<>>)
    \o (IF Includes(cbs, "altText")
        THEN <<"alt text (descriptive alt text for accessibility)">> ELSE <<>>)

\* faulty variant: the categories joined without the space after the comma
PromptTemplate_CommaOnly(cats) ==
    TemplateIndent
    \o "Analyze the image provided and determine the categories of: "
    \o Join(cats, ",") \o ". "
    \o TemplateIndent
    \o "Report the values of the categories as classLabels. Be very careful to place these values correctly. "
    \o TemplateIndent
    \o "If you are unable to provide a category with a value then set its classLabel to null."

PromptTemplate(cats) ==
    TemplateIndent
    \o "Analyze the image provided and determine the categories of: "
    \o Join(cats, ", ") \o ". "
    \o TemplateIndent
    \o "Report the values of the categories as classLabels. Be very careful to place these values correctly. "
    \o TemplateIndent
    \o "If you are unable to provide a category with a value then set its classLabel to null."

\* faulty variant: the person-analysis template chosen as soon as any option is enabled
buildComprehensivePrompt_PersonOnAnyOption(qs, pt, cbs) ==
    IF Len(cbs) > 0
    THEN "Analyze the image provided and determine the following:"
         \o " For any people in the image, analyze: Age (report as range, ex. 20s), Gender (Male/Female), Fashion style (Casual, Formal, Bohemian, Streetwear, Vintage, Chic, Sporty, Edgy), and describe their outfit."
         \o " Additionally: " \o Join(BuildCategories(qs, pt, cbs), ". ")
    ELSE PromptTemplate(BuildCategories(qs, pt, cbs))

\* faulty variant: the categories list kept on the client between calls
\* instead of being a local of the call
buildComprehensivePrompt_SharedCategories(qs, pt, cbs) ==
    PromptTemplate(categories \o BuildCategories(qs, pt, cbs))

buildComprehensivePrompt(qs, pt, cbs) == PromptTemplate(BuildCategories(qs, pt, cbs))

\* faulty variant: one prompt per question, as the comprehensive pop of the
\* test scripts has it, instead of the single built prompt
PopOf_PromptPerQuestion(promptText) ==
    [components |-> << [type |-> "inference",
                        ability |-> "eyepop.image-contents:latest",
                        prompts |-> [i \in 1..Len(questions) |-> [prompt |-> questions[i]]]] >>]

PopOf(promptText) ==
    [components |-> << [type |-> "inference",
                        ability |-> "eyepop.image-contents:latest",
                        prompts |-> << [prompt |-> promptText] >>] >>]

NoPop == [components |-> <<>>]

\* the prompt text the pop carries
PromptText == pop.components[1].prompts[1].prompt

----------------------------------------------------------------------------
(* Response extractor: field keys.                                          *)

\* const mappings: Record<string, string>, as a set of <<phrase, field key>>
Mappings ==
    { <<"product type", "product_type">>, <<"focus object", "focus_object">>,
      <<"product title", "product_title">>, <<"title", "product_title">>,
      <<"product name", "product_title">>, <<"name", "product_title">>,
      <<"product description", "product_description">>,
      <<"description", "product_description">>,
      <<"product details", "product_description">>,
      <<"details", "product_description">>,
      <<"color", "color_variant">>, <<"color variant", "color_variant">>,
      <<"color variants", "color_variant">>, <<"variant", "color_variant">>,
      <<"product color", "color_variant">>,
      <<"seo description", "seo_description">>, <<"seo", "seo_description">>,
      <<"meta description", "seo_description">>,
      <<"product tags", "product_tags">>, <<"tags", "product_tags">>,
      <<"keywords", "product_tags">>, <<"product keywords", "product_tags">>,
      <<"alt text", "alt_text">>, <<"alt", "alt_text">>,
      <<"image alt text", "alt_text">>, <<"image description", "alt_text">>,
      <<"price", "price">>, <<"product price", "price">>, <<"cost", "price">>,
      <<"amount", "price">>, <<"size", "size">>, <<"chest size", "chest_size">> }

\* mappings is an object literal, so mappings[name] also finds what every
\* object inherits from Object.prototype.  A normalized name is lower-case;
\* the inherited names without an upper-case letter are constructor (the
\* function Object) and __proto__ (the prototype object), both truthy.  The
\* value is given as the string it turns into when used as a property key.
InheritedAsKey(name) ==
    CASE name = "constructor" -> "function Object() { [native code] }"
      [] name = "__proto__" -> "[object Object]"
      [] OTHER -> ""

\* mappings[normalized], "" standing for undefined
MappingsLookup(normalized) ==
    IF \E p \in Mappings : p[1] = normalized
    THEN (CHOOSE p \in Mappings : p[1] = normalized)[2]
    ELSE InheritedAsKey(normalized)

\* str.replace(/[^a-z0-9_]/g, '')
RECURSIVE StripNonKeyChars(_)
StripNonKeyChars(str) ==
    IF str = "" THEN ""
    ELSE IF Len(str) = 1
         THEN IF IndexIn(LowerCase, str) > 0 \/ IsDigit(str) \/ str = "_" THEN str ELSE ""
         ELSE StripNonKeyChars(SubSeq(str, 1, Len(str) \div 2))
                 \o StripNonKeyChars(From(str, Len(str) \div 2 + 1))

Normalize(name) == ReplaceSpaceRuns(Trim(ToLowerCase(name)), " ")

Sanitize(normalized) == StripNonKeyChars(ReplaceSpaceRuns(normalized, "_"))

createFieldMapping(categoryNameFromAI) ==
    IF Trim(categoryNameFromAI) = "" THEN "unknown_field"
    ELSE LET normalized == Normalize(categoryNameFromAI)
             mappedField == MappingsLookup(normalized)
             sanitized == Sanitize(normalized)
         IN IF mappedField # "" THEN mappedField
            ELSE IF sanitized # "" THEN sanitized ELSE "unknown_field"

----------------------------------------------------------------------------
(* Response extractor: values.                                              *)

FirstIndexOf(str, seps) ==
    IF \E i \in 1..Len(str) : Ch(str, i) \in seps
    THEN CHOOSE i \in 1..Len(str) :
            /\ Ch(str, i) \in seps
            /\ \A j \in 1..(i - 1) : Ch(str, j) \notin seps
    ELSE 0

\* str.split over a class of one-character separators
RECURSIVE Split(_, _)
Split(str, seps) ==
    LET i == FirstIndexOf(str, seps)
    IN IF i = 0 THEN <<str>>
       ELSE <<SubSeq(str, 1, i - 1)>> \o Split(From(str, i + 1), seps)

TrimAll(arr) == [i \in 1..Len(arr) |-> Trim(arr[i])]

\* faulty variant: the tags split on ',' only
SplitTags_CommaOnly(str) ==
    SelectSeq(TrimAll(Split(str, {","})), LAMBDA tag : tag # "")

\* value.split(/[,;]/).map(tag => tag.trim()).filter(tag => tag)
SplitTags(str) ==
    SelectSeq(TrimAll(Split(str, {",", ";"})), LAMBDA tag : tag # "")

\* str.replace(/[^\d.-]/g, '')
RECURSIVE StripNonPriceChars(_)
StripNonPriceChars(str) ==
    IF str = "" THEN ""
    ELSE LET c == Ch(str, 1)
         IN (IF IsDigit(c) \/ c = "." \/ c = "-" THEN c ELSE "")
            \o StripNonPriceChars(From(str, 2))

RECURSIVE DigitPrefix(_)
DigitPrefix(str) ==
    IF str # "" /\ IsDigit(Ch(str, 1)) THEN Ch(str, 1) \o DigitPrefix(From(str, 2)) ELSE ""

RECURSIVE DigitsValue(_)
DigitsValue(ds) ==
    IF ds = "" THEN 0
    ELSE DigitsValue(SubSeq(ds, 1, Len(ds) - 1)) * 10 + (IndexIn(Digits, Ch(ds, Len(ds))) - 1)

\* the number mant / 10^exp without trailing zero decimals
RECURSIVE NormalNumber(_, _)
NormalNumber(mant, exp) ==
    IF exp > 0 /\ mant % 10 = 0 THEN NormalNumber(mant \div 10, exp - 1)
    ELSE JSNumber(mant, exp)

\* parseFloat on a string of digits, '.' and '-': the longest prefix that is
\* a decimal literal (an optional '-', digits, an optional '.' and digits, at
\* least one digit in all), NaN when there is none
ParseFloat(str) ==
    LET neg == str # "" /\ Ch(str, 1) = "-"
        body == IF neg THEN From(str, 2) ELSE str
        int == DigitPrefix(body)
        rest == From(body, Len(int) + 1)
        frac == IF rest # "" /\ Ch(rest, 1) = "." THEN DigitPrefix(From(rest, 2)) ELSE ""
        mant == DigitsValue(int \o frac)
    IN IF int = "" /\ frac = "" THEN JSNaN
       ELSE NormalNumber(IF neg THEN 0 - mant ELSE mant, Len(frac))

\* obj[key] = value
Put(obj, key, value) ==
    [k \in (DOMAIN obj) \cup {key} |-> IF k = key THEN value ELSE obj[k]]

\* Object.keys(obj).length
KeyCount(obj) == Cardinality(DOMAIN obj)

\* String(value) for the values a reply carries
ToJSString(v) ==
    CASE v.t = "string" -> v.s
      [] v.t = "array" -> Join(v.a, ",")
      [] v.t = "null" -> "null"
      [] OTHER -> "undefined"

\* obj[key] read on an object literal: own properties first, then the
\* inherited ones
GetProperty(obj, key) ==
    IF key \in DOMAIN obj THEN obj[key]
    ELSE IF InheritedAsKey(key) # "" THEN JSObject ELSE JSUndefined

----------------------------------------------------------------------------
(* Response extractor: the structured path's loop body and the fallback     *)
(* path's loop body.                                                        *)

ValueFromAI(classItem) ==
    IF classItem.classLabel.t \in {"undefined", "null"} THEN JSNull
    ELSE JSString(ToJSString(classItem.classLabel))

\* faulty variant: the literal "null" kept as a string
ExtractedValue_KeepsNullString(classItem) == ValueFromAI(classItem)

ExtractedValue(classItem) ==
    IF ValueFromAI(classItem) = JSString("null") THEN JSNull ELSE ValueFromAI(classItem)

\* faulty variant: an unparseable price dropped instead of kept as price_text
StorePrice_DropsUnparseable(data, extractedValue) ==
    LET priceValue == ParseFloat(StripNonPriceChars(extractedValue.s))
    IN IF priceValue # JSNaN THEN Put(data, "price", priceValue) ELSE data

StorePrice(data, extractedValue) ==
    LET priceValue == ParseFloat(StripNonPriceChars(extractedValue.s))
    IN IF priceValue # JSNaN
       THEN Put(data, "price", priceValue)
       ELSE Put(data, "price_text", extractedValue)

\* faulty variant: a field key that is already set keeps its first value
StoreValue_FirstWins(data, fieldKey, extractedValue) ==
    IF fieldKey \in DOMAIN data THEN data
    ELSE IF extractedValue # JSNull
         THEN IF fieldKey = "product_tags"
              THEN Put(data, "product_tags", JSArray(SplitTags(extractedValue.s)))
              ELSE IF fieldKey = "price"
                   THEN StorePrice(data, extractedValue)
                   ELSE Put(data, fieldKey, extractedValue)
         ELSE Put(data, fieldKey, JSNull)

StoreValue(data, fieldKey, extractedValue) ==
    IF extractedValue # JSNull
    THEN IF fieldKey = "product_tags"
         THEN Put(data, "product_tags", JSArray(SplitTags(extractedValue.s)))
         ELSE IF fieldKey = "price"
              THEN StorePrice(data, extractedValue)
              ELSE Put(data, fieldKey, extractedValue)
    ELSE Put(data, fieldKey, JSNull)

\* faulty variant: the combined text written with the normalized category
ProcessClassItem_NormalizedLine(acc, classItem) ==
    IF Truthy(classItem.category)
    THEN LET categoryNameFromAI == ToJSString(classItem.category)
             fieldKey == createFieldMapping(categoryNameFromAI)
             extractedValue == ExtractedValue(classItem)
         IN [extractedData |-> StoreValue(acc.extractedData, fieldKey, extractedValue),
             combinedText |-> acc.combinedText \o Normalize(categoryNameFromAI) \o ": "
                   \o (IF extractedValue = JSNull THEN "null" ELSE extractedValue.s)
                   \o "\n"]
    ELSE acc

\* faulty variant: an item without a category still reported in the combined text
ProcessClassItem_LogsSkipped(acc, classItem) ==
    LET name == IF Truthy(classItem.category) THEN ToJSString(classItem.category) ELSE ""
        fieldKey == createFieldMapping(name)
        extractedValue == ExtractedValue(classItem)
        line == name \o ": " \o (IF extractedValue = JSNull THEN "null" ELSE extractedValue.s)
                \o "\n"
    IN IF Truthy(classItem.category)
       THEN [extractedData |-> StoreValue(acc.extractedData, fieldKey, extractedValue),
             combinedText |-> acc.combinedText \o line]
       ELSE [extractedData |-> acc.extractedData, combinedText |-> acc.combinedText \o line]

\* one iteration of for (const classItem of firstResult.classes), on
\* acc = [extractedData, combinedText]
ProcessClassItem(acc, classItem) ==
    IF Truthy(classItem.category)
    THEN LET categoryNameFromAI == ToJSString(classItem.category)
             fieldKey == createFieldMapping(categoryNameFromAI)
             extractedValue == ExtractedValue(classItem)
         IN IF fieldKey # ""
            THEN [extractedData |-> StoreValue(acc.extractedData, fieldKey, extractedValue),
                  combinedText |-> acc.combinedText \o categoryNameFromAI \o ": "
                        \o (IF extractedValue = JSNull THEN "null" ELSE extractedValue.s)
                        \o "\n"]
            ELSE acc
    ELSE acc

\* firstResult.text.split('\n').filter(line => line.trim())
TextLines(text) == SelectSeq(Split(text, {"\n"}), LAMBDA line : Trim(line) # "")

\* line.match(/^([^:]+):\s*(.+)$/): a first colon after at least one
\* character, then whitespace, then at least one character none of which is a
\* line terminator
MatchesKeyValue(line) ==
    LET i == FirstIndexOf(line, {":"})
        rest == From(line, i + 1)
    IN /\ i > 1
       /\ \E k \in 0..(Len(rest) - 1) :
            /\ \A j \in 1..k : IsSpace(Ch(rest, j))
            /\ \A j \in (k + 1)..Len(rest) : Ch(rest, j) \notin {"\n", "\r"}

KeyFromText(line) == Trim(SubSeq(line, 1, FirstIndexOf(line, {":"}) - 1))
ValueFromText(line) == Trim(From(line, FirstIndexOf(line, {":"}) + 1))

\* faulty variant: a matching line stored whatever the field already holds
ProcessLine_Overwrites(data, line) ==
    IF MatchesKeyValue(line)
    THEN LET fieldKey == createFieldMapping(KeyFromText(line))
         IN IF fieldKey # ""
            THEN Put(data, fieldKey, JSString(ValueFromText(line)))
            ELSE data
    ELSE data

\* one iteration of for (const line of lines)
ProcessLine(data, line) ==
    IF MatchesKeyValue(line)
    THEN LET fieldKey == createFieldMapping(KeyFromText(line))
         IN IF fieldKey # "" /\ ~Truthy(GetProperty(data, fieldKey))
            THEN Put(data, fieldKey, JSString(ValueFromText(line)))
            ELSE data
    ELSE data

\* faulty variant: the fallback entered whenever the reply carries text
EntersFallback_IgnoresFields(data, firstResult) == Truthy(firstResult.text)

\* Object.keys(parsedResponse.extractedData).length === 0 && firstResult.text
EntersFallback(data, firstResult) == KeyCount(data) = 0 /\ Truthy(firstResult.text)

\* firstResult.classes && firstResult.classes.length > 0
HasClasses(firstResult) == firstResult.hasClasses /\ Len(firstResult.classes) > 0

----------------------------------------------------------------------------
(* Inputs of the prompt builder.                                            *)

MaxQuestions == 2
MaxOptions == 2

QuestionTexts == {"what is the collar style", "What is the main color?"}

ProductTypes == {JSUndefined, JSString(""), JSString("t-shirt")}

\* the option names of the content configuration, in declaration order
OptionOrder ==
    <<"productTitle", "productDescription", "colorVariant", "seoDescription",
      "productTags", "altText", "ageRange", "gender", "fashionStyle",
      "outfitDescription">>

OptionNames == {OptionOrder[i] : i \in 1..Len(OptionOrder)}

SeqsUpTo(S, n) == UNION {[1..k -> S] : k \in 0..n}

InDeclarationOrder(S) == SelectSeq(OptionOrder, LAMBDA o : o \in S)

\* every set of options listed in declaration order, and every short list in
\* any order, repetitions included
CheckboxLists ==
    {InDeclarationOrder(S) : S \in SUBSET OptionNames}
    \cup SeqsUpTo(OptionNames, MaxOptions)

----------------------------------------------------------------------------
(* State after construction, and the prompt builder's operation.            *)

\* faulty variant: the result starts with the placeholder the log prints for a missing text
InitialParsedResponse_NoTextMarker == [text |-> "NO TEXT", extractedData |-> <<>>]

InitialParsedResponse == [text |-> "", extractedData |-> <<>>]

\* the extractor before a call
ParseIdle ==
    /\ processedResults = <<>>
    /\ parsedResponse = InitialParsedResponse
    /\ combinedText = ""
    /\ parsePc = "idle"
    /\ classIdx = 0
    /\ lines = <<>>
    /\ lineIdx = 0
    /\ usedFallback = FALSE

\* the completion of a processImage... call: none yet, a returned
\* parsedResponse, or a thrown error with its message
NoCompletion == [kind |-> "none", error |-> "", result |-> InitialParsedResponse]

\* the client after construction, no public method called yet
ClientIdle ==
    /\ isConnected = FALSE
    /\ endpointCalls = <<>>
    /\ caller = "none"
    /\ images = <<>>
    /\ outcomes = <<>>
    /\ imageIdx = 0
    /\ batchResults = <<>>
    /\ clientPc = "idle"
    /\ callResult = NoCompletion
    /\ builds = <<>>

\* the export route before a request
ExportIdle ==
    /\ requestBody = [isArray |-> FALSE, analysisResults |-> <<>>]
    /\ adminReplies = <<>>
    /\ exportIdx = 0
    /\ exportResults = <<>>
    /\ successCount = 0
    /\ failCount = 0
    /\ graphqlCalls = <<>>
    /\ exportResponse = [status |-> 0]
    /\ exportPc = "idle"

\* the image route before a request
RouteIdle ==
    /\ routeVersion = "none"
    /\ formData = <<>>
    /\ eyepop = <<>>
    /\ clientCalls = <<>>
    /\ routeResponse = [status |-> 0]
    /\ routePc = "idle"

\* the webhook routes before a request
WebhookIdle ==
    /\ webhookRequest = <<>>
    /\ authenticateCalls = 0
    /\ sessionOps = <<>>
    /\ webhookResponse = [status |-> 0]
    /\ webhookPc = "idle"

\* the wizard after mounting: nothing selected, nothing processed
WizardIdle ==
    /\ selectedFiles = <<>>
    /\ authCredentials = "null"
    /\ serverReplies = <<>>
    /\ processingItems = <<>>
    /\ allProcessedResults = <<>>
    /\ analysisResults = <<>>
    /\ isProcessing = FALSE
    /\ isAuthenticated = FALSE
    /\ currentStep = 1
    /\ fetches = <<>>
    /\ fileIdx = 0
    /\ wizardPc = "idle"

\* the routes and the wizard untouched, no public method called on the client
AppIdle ==
    /\ callCount = 0
    /\ testResult = "none"
    /\ ExportIdle
    /\ RouteIdle
    /\ WebhookIdle
    /\ WizardIdle

\* a client about to build the pop for one image: the caller's arguments are
\* drawn from the input sets, nothing is built yet
InitPrompt ==
    /\ questions \in SeqsUpTo(QuestionTexts, MaxQuestions)
    /\ productType \in ProductTypes
    /\ checkboxQuestions \in CheckboxLists
    /\ categories = <<>>
    /\ pop = NoPop
    /\ ParseIdle
    /\ ClientIdle
    /\ AppIdle

createVisualIntelligencePop ==
    /\ pop = NoPop
    /\ categories' = BuildCategories(questions, productType, checkboxQuestions)
    /\ pop' = PopOf(buildComprehensivePrompt(questions, productType, checkboxQuestions))
    /\ UNCHANGED <<questions, productType, checkboxQuestions>>
    /\ UNCHANGED parseVars
    /\ UNCHANGED clientVars
    /\ UNCHANGED appVars

NextPrompt == createVisualIntelligencePop

SpecPrompt == InitPrompt /\ [][NextPrompt]_vars

----------------------------------------------------------------------------
(* Claims about the prompt builder.                                         *)

PopCreated == pop # NoPop

PersonOptions == {"ageRange", "gender", "fashionStyle", "outfitDescription"}

HasPersonFlag(cbs) == \E i \in 1..Len(cbs) : cbs[i] \in PersonOptions

PersonPreamble ==
    "For any people in the image, analyze: Age (report as range, ex. 20s), Gender (Male/Female), Fashion style (Casual, Formal, Bohemian, Streetwear, Vintage, Chic, Sporty, Edgy), and describe their outfit."

\* the fixed phrase of each content option, as the phrase table states it
PhraseOf(o) ==
    CASE o = "productTitle" -> "product title (compelling, SEO-friendly product title)"
      [] o = "productDescription" ->
            "product description (detailed description suitable for e-commerce listing)"
      [] o = "colorVariant" -> "color variants (primary colors and color variants visible)"
      [] o = "seoDescription" ->
            "SEO description (SEO-optimized meta description under 160 characters)"
      [] o = "productTags" ->
            "product tags (5-10 relevant product tags and keywords, comma-separated)"
      [] o = "altText" -> "alt text (descriptive alt text for accessibility)"
      [] o = "ageRange" -> "Determine the age range of the person (report as range, ex. 20s)"
      [] o = "gender" -> "Identify the gender (Male/Female)"
      [] o = "fashionStyle" ->
            "Identify the fashion style (Casual, Formal, Bohemian, Streetwear, Vintage, Chic, Sporty, Edgy)"
      [] o = "outfitDescription" -> "Describe their outfit in detail"

EnabledOptions(cbs) == {o \in OptionNames : Includes(cbs, o)}

EnabledPhrases(cbs) ==
    LET en == InDeclarationOrder(EnabledOptions(cbs))
    IN [i \in 1..Len(en) |-> PhraseOf(en[i])]

ProductTypeCategory(pt) ==
    IF pt.t = "string" /\ pt.s # ""
    THEN <<"product type (this is a " \o pt.s \o " product)">> ELSE <<>>

\* C1: the categories are the product-type category (when productType is
\* non-empty), then the questions in input order, then the fixed phrase of
\* each enabled option in declaration order, whatever the order of the option
\* list; their number is (1 if productType) + questions + enabled options.
C1_CategoryOrder ==
    PopCreated =>
        /\ categories = ProductTypeCategory(productType) \o questions
                            \o EnabledPhrases(checkboxQuestions)
        /\ Len(categories) = Len(ProductTypeCategory(productType)) + Len(questions)
                                + Cardinality(EnabledOptions(checkboxQuestions))

\* C2: whenever one of ageRange, gender, fashionStyle, outfitDescription is
\* enabled, the prompt sent to the vision service contains the person-mode
\* preamble.
C2_PersonModePreamble ==
    (PopCreated /\ HasPersonFlag(checkboxQuestions)) =>
        Contains(PromptText, PersonPreamble)

\* C3: when no person option is enabled, the built prompt does not contain
\* the person-mode preamble, whatever the questions, the productType and the
\* other options are (the caller's own texts do not quote the preamble).
C3_NoPersonPreamble ==
    (PopCreated /\ ~HasPersonFlag(checkboxQuestions)) =>
        ~Contains(PromptText, PersonPreamble)

C3_Witness ==
    /\ PopCreated
    /\ ~HasPersonFlag(checkboxQuestions)
    /\ Includes(checkboxQuestions, "productTitle")
    /\ Len(questions) = MaxQuestions
    /\ Truthy(productType)
    /\ ~Contains(PromptText, PersonPreamble)

Preamble == "Analyze the image provided and determine the categories of: "

Postamble ==
    ". Report the values of the categories as classLabels. Be very careful to place these values correctly. If you are unable to provide a category with a value then set its classLabel to null."

\* C4 as stated: without a person option, the prompt text is exactly the
\* preamble, the categories joined by ", " and the postamble, and so starts
\* with the preamble followed by the first category.
C4_ExactTemplate ==
    (PopCreated /\ ~HasPersonFlag(checkboxQuestions)) =>
        /\ PromptText = Preamble \o Join(categories, ", ") \o Postamble
        /\ Len(categories) > 0 => StartsWith(PromptText, Preamble \o categories[1])

\* C4 as amended: without a person option, the prompt text is a line break
\* and nine spaces, the preamble, the categories joined by ", ", then ". ",
\* and the postamble's two further lines, each after a line break and nine
\* spaces; after its leading whitespace the text starts with the preamble
\* followed by the first category.
C4_IndentedTemplate ==
    (PopCreated /\ ~HasPersonFlag(checkboxQuestions)) =>
        /\ PromptText =
              "\n         " \o Preamble \o Join(categories, ", ") \o ". "
              \o "\n         "
              \o "Report the values of the categories as classLabels. Be very careful to place these values correctly. "
              \o "\n         "
              \o "If you are unable to provide a category with a value then set its classLabel to null."
        /\ Len(categories) > 0 =>
              StartsWith(TrimStart(PromptText), Preamble \o categories[1])

\* Scenario A
C4_Witness ==
    /\ PopCreated
    /\ questions = <<"what is the collar style">>
    /\ productType = JSString("t-shirt")
    /\ checkboxQuestions = <<"productTitle", "colorVariant">>
    /\ StartsWith(TrimStart(PromptText),
          "Analyze the image provided and determine the categories of: product type (this is a t-shirt product), what is the collar style, product title (compelling, SEO-friendly product title), color variants")

----------------------------------------------------------------------------
(* Inputs of the response extractor.                                        *)

MaxItems == 2

Item(category, classLabel) == [category |-> category, classLabel |-> classLabel]

\* categories a reply may carry: missing, empty, and phrases that need
\* normalizing, are synonyms, are unmapped, sanitize to nothing, or echo a
\* phrase of the prompt
ReplyCategories ==
    { JSUndefined, JSString(""), JSString("   "),
      JSString("  Product   TITLE "), JSString("title"),
      JSString("Product Tags"), JSString("Price"), JSString("cost"),
      JSString("Collar Style?"), JSString("???"), JSString("constructor"),
      JSString("product tags (5-10 relevant product tags and keywords, comma-separated)") }

ReplyLabels ==
    { JSUndefined, JSNull, JSString("null"), JSString(""),
      JSString("red, blue;green"), JSString(" ;, "), JSString("$19.99"),
      JSString("N/A"), JSString("Blue Jacket"), JSString("from 1,200.50-") }

AllItems == {Item(c, l) : c \in ReplyCategories, l \in ReplyLabels}

\* the items that longer replies are made of
CoreItems ==
    { Item(JSUndefined, JSString("Blue Jacket")),
      Item(JSString(""), JSString("null")),
      Item(JSString("  Product   TITLE "), JSString("Blue Jacket")),
      Item(JSString("title"), JSString("null")),
      Item(JSString("Product Tags"), JSString("red, blue;green")),
      Item(JSString("Product Tags"), JSString("null")),
      Item(JSString("Price"), JSString("$19.99")),
      Item(JSString("cost"), JSString("N/A")),
      Item(JSString("Price"), JSString("null")),
      Item(JSString("Collar Style?"), JSString("Blue Jacket")) }

ReplyTexts ==
    { JSUndefined, JSString(""),
      JSString("Product Title: Blue Jacket\nColor: Navy"),
      JSString("Title: Red Scarf\nno colon here\n\nName: Second\nTags: a, b"),
      JSString("Title:  \nTitle: Red Scarf"),
      JSString("constructor: Blue Jacket\nColor: Navy") }

ClassLists == SeqsUpTo(CoreItems, MaxItems) \cup {<<i>> : i \in AllItems}

FirstResults ==
    {[hasClasses |-> TRUE, classes |-> cl, text |-> tx] : cl \in ClassLists, tx \in ReplyTexts}
    \cup {[hasClasses |-> FALSE, classes |-> <<>>, text |-> tx] : tx \in ReplyTexts}

\* a result that would yield fields if it were read
SecondResult ==
    [hasClasses |-> TRUE,
     classes |-> <<Item(JSString("title"), JSString("Blue Jacket"))>>,
     text |-> JSString("Color: Navy")]

\* no result, one result, or two results of which the first gives little
Replies ==
    {<<>>} \cup {<<r>> : r \in FirstResults}
    \cup {<<[hasClasses |-> FALSE, classes |-> <<>>, text |-> tx], SecondResult>> :
             tx \in {JSUndefined, JSString("Color: Navy")}}

----------------------------------------------------------------------------
(* parseVisualIntelligenceResponse, statement by statement.                 *)

\* a reply has arrived and parseVisualIntelligenceResponse is about to run
InitExtract ==
    /\ questions = <<>>
    /\ productType = JSUndefined
    /\ checkboxQuestions = <<>>
    /\ categories = <<>>
    /\ pop = NoPop
    /\ processedResults \in Replies
    /\ parsedResponse = InitialParsedResponse
    /\ combinedText = ""
    /\ parsePc = "idle"
    /\ classIdx = 0
    /\ lines = <<>>
    /\ lineIdx = 0
    /\ usedFallback = FALSE
    /\ ClientIdle
    /\ AppIdle

FirstResult == processedResults[1]

\* faulty variant: the first result read without the length check, which
\* throws on an empty list of results
ParseStart_NoLengthCheck ==
    /\ parsePc = "idle"
    /\ parsedResponse' = InitialParsedResponse
    /\ combinedText' = ""
    /\ parsePc' = IF Len(processedResults) = 0 THEN "thrown"
                  ELSE IF HasClasses(processedResults[1]) THEN "classes" ELSE "afterClasses"
    /\ UNCHANGED <<processedResults, classIdx, lines, lineIdx, usedFallback>>
    /\ UNCHANGED promptVars
    /\ UNCHANGED clientVars
    /\ UNCHANGED appVars

\* entry: parsedResponse is created, and the shape of the reply decides
\* where the function goes
ParseStart ==
    /\ parsePc = "idle"
    /\ parsedResponse' = InitialParsedResponse
    /\ combinedText' = ""
    /\ parsePc' = IF Len(processedResults) = 0 THEN "done"
                  ELSE IF HasClasses(FirstResult) THEN "classes" ELSE "afterClasses"
    /\ UNCHANGED <<processedResults, classIdx, lines, lineIdx, usedFallback>>
    /\ UNCHANGED promptVars
    /\ UNCHANGED clientVars
    /\ UNCHANGED appVars

\* one class item
ClassItemStep ==
    /\ parsePc = "classes"
    /\ classIdx < Len(FirstResult.classes)
    /\ LET acc == ProcessClassItem(
                      [extractedData |-> parsedResponse.extractedData,
                       combinedText |-> combinedText],
                      FirstResult.classes[classIdx + 1])
       IN /\ parsedResponse' = [parsedResponse EXCEPT !.extractedData = acc.extractedData]
          /\ combinedText' = acc.combinedText
    /\ classIdx' = classIdx + 1
    /\ UNCHANGED <<processedResults, parsePc, lines, lineIdx, usedFallback>>
    /\ UNCHANGED promptVars
    /\ UNCHANGED clientVars
    /\ UNCHANGED appVars

\* after the loop: the combined text becomes the result's text
ClassesEnd ==
    /\ parsePc = "classes"
    /\ classIdx = Len(FirstResult.classes)
    /\ parsedResponse' = IF Trim(combinedText) # ""
                         THEN [parsedResponse EXCEPT !.text = Trim(combinedText)]
                         ELSE parsedResponse
    /\ parsePc' = "afterClasses"
    /\ UNCHANGED <<processedResults, combinedText, classIdx, lines, lineIdx, usedFallback>>
    /\ UNCHANGED promptVars
    /\ UNCHANGED clientVars
    /\ UNCHANGED appVars

\* the fallback condition; the branch not taken returns
FallbackCheck ==
    /\ parsePc = "afterClasses"
    /\ IF EntersFallback(parsedResponse.extractedData, FirstResult)
       THEN /\ parsedResponse' = [parsedResponse EXCEPT !.text = FirstResult.text.s]
            /\ lines' = TextLines(FirstResult.text.s)
            /\ lineIdx' = 0
            /\ usedFallback' = TRUE
            /\ parsePc' = "fallback"
       ELSE /\ parsePc' = "done"
            /\ UNCHANGED <<parsedResponse, lines, lineIdx, usedFallback>>
    /\ UNCHANGED <<processedResults, combinedText, classIdx>>
    /\ UNCHANGED promptVars
    /\ UNCHANGED clientVars
    /\ UNCHANGED appVars

\* one line of the text
FallbackLineStep ==
    /\ parsePc = "fallback"
    /\ lineIdx < Len(lines)
    /\ parsedResponse' =
          [parsedResponse EXCEPT
              !.extractedData = ProcessLine(parsedResponse.extractedData, lines[lineIdx + 1])]
    /\ lineIdx' = lineIdx + 1
    /\ UNCHANGED <<processedResults, combinedText, parsePc, classIdx, lines, usedFallback>>
    /\ UNCHANGED promptVars
    /\ UNCHANGED clientVars
    /\ UNCHANGED appVars

\* after the lines: return parsedResponse
FallbackEnd ==
    /\ parsePc = "fallback"
    /\ lineIdx = Len(lines)
    /\ parsePc' = "done"
    /\ UNCHANGED <<processedResults, parsedResponse, combinedText, classIdx, lines,
                   lineIdx, usedFallback>>
    /\ UNCHANGED promptVars
    /\ UNCHANGED clientVars
    /\ UNCHANGED appVars

NextExtract ==
    \/ ParseStart
    \/ ClassItemStep
    \/ ClassesEnd
    \/ FallbackCheck
    \/ FallbackLineStep
    \/ FallbackEnd

SpecExtract == InitExtract /\ [][NextExtract]_vars

----------------------------------------------------------------------------
(* parseVisualIntelligenceResponse as a function of the reply.              *)

EmptyAcc == [extractedData |-> <<>>, combinedText |-> ""]

RECURSIVE FoldClasses(_, _, _)
FoldClasses(acc, classes, n) ==
    IF n = 0 THEN acc
    ELSE ProcessClassItem(FoldClasses(acc, classes, n - 1), classes[n])

RECURSIVE FoldLines(_, _, _)
FoldLines(data, ls, n) ==
    IF n = 0 THEN data ELSE ProcessLine(FoldLines(data, ls, n - 1), ls[n])

parseVisualIntelligenceResponse(results) ==
    IF Len(results) = 0 THEN InitialParsedResponse
    ELSE LET firstResult == results[1]
             acc == IF HasClasses(firstResult)
                    THEN FoldClasses(EmptyAcc, firstResult.classes, Len(firstResult.classes))
                    ELSE EmptyAcc
         IN IF EntersFallback(acc.extractedData, firstResult)
            THEN [text |-> firstResult.text.s,
                  extractedData |->
                      FoldLines(acc.extractedData, TextLines(firstResult.text.s),
                                Len(TextLines(firstResult.text.s)))]
            ELSE [text |-> Trim(acc.combinedText), extractedData |-> acc.extractedData]

\* the statements above compute the function
StepsComputeFunction ==
    parsePc = "done" => parsedResponse = parseVisualIntelligenceResponse(processedResults)

----------------------------------------------------------------------------
(* Claims about the response extractor.                                     *)

\* the class item the loop has just consumed
AtClassItem == parsePc = "classes" /\ classIdx >= 1
CurrentItem == FirstResult.classes[classIdx]
ExtractedData == parsedResponse.extractedData

\* the value a field holds, undefined when the field is absent
FieldIn(data, key) == IF key \in DOMAIN data THEN data[key] ELSE JSUndefined

\* what the structured path alone yields for the reply
StructuredAcc ==
    IF Len(processedResults) > 0 /\ HasClasses(FirstResult)
    THEN FoldClasses(EmptyAcc, FirstResult.classes, Len(FirstResult.classes))
    ELSE EmptyAcc

\* the reply without its text block
WithoutText(results) ==
    [i \in 1..Len(results) |-> [results[i] EXCEPT !.text = JSUndefined]]

\* C5: the fallback path is entered only when the structured path produced
\* zero fields and the reply carries a text block; when the classification
\* list yields at least one field, the returned fields and text are those of
\* the same reply without its text block.
C5_FallbackOnlyWithoutFields ==
    /\ usedFallback =>
          /\ KeyCount(StructuredAcc.extractedData) = 0
          /\ FirstResult.text.t = "string" /\ FirstResult.text.s # ""
    /\ (parsePc = "fallback" /\ lineIdx = 0) => KeyCount(ExtractedData) = 0
    /\ (parsePc = "done" /\ KeyCount(StructuredAcc.extractedData) >= 1) =>
          /\ ~usedFallback
          /\ parsedResponse = parseVisualIntelligenceResponse(WithoutText(processedResults))
          /\ ExtractedData = StructuredAcc.extractedData
          /\ parsedResponse.text = Trim(StructuredAcc.combinedText)

\* a reply with a usable classification item and a text block: the text is ignored
C5_Witness ==
    /\ parsePc = "done"
    /\ ~usedFallback
    /\ Len(processedResults) = 1
    /\ FirstResult.text = JSString("Product Title: Blue Jacket\nColor: Navy")
    /\ FirstResult.classes = <<Item(JSString("Collar Style?"), JSString("Blue Jacket"))>>
    /\ DOMAIN ExtractedData = {"collar_style"}
    /\ parsedResponse.text = "Collar Style?: Blue Jacket"

\* the other case: every item skipped, so the text block is parsed
C5_FallbackTaken ==
    /\ parsePc = "done"
    /\ usedFallback
    /\ Len(processedResults) = 1
    /\ Len(FirstResult.classes) > 0
    /\ KeyCount(ExtractedData) > 0

\* C6: once an item with a non-empty category and the classLabel "null" is
\* processed, the field under its field key is an explicit null, not the
\* string "null" (nor a list holding it); product_tags and price included.
C6_NullRoundTrip ==
    (AtClassItem /\ Truthy(CurrentItem.category)
        /\ CurrentItem.classLabel = JSString("null")) =>
        LET fieldKey == createFieldMapping(CurrentItem.category.s)
        IN /\ fieldKey \in DOMAIN ExtractedData
           /\ FieldIn(ExtractedData, fieldKey) = JSNull
           /\ FieldIn(ExtractedData, fieldKey).t # "string"
           /\ CurrentItem.category = JSString("Product Tags") =>
                 FieldIn(ExtractedData, "product_tags") = JSNull
           /\ CurrentItem.category \in {JSString("Price"), JSString("cost")} =>
                 FieldIn(ExtractedData, "price") = JSNull
           /\ "price_text" \in DOMAIN ExtractedData =>
                 FieldIn(ExtractedData, "price_text") # JSString("null")

C6_Witness ==
    /\ AtClassItem
    /\ classIdx = 2
    /\ FirstResult.classes[1] = Item(JSString("Price"), JSString("$19.99"))
    /\ CurrentItem = Item(JSString("Price"), JSString("null"))
    /\ FieldIn(ExtractedData, "price") = JSNull

\* the characters of a text that are neither separators nor whitespace
RECURSIVE StripSeparatorsAndSpace(_)
StripSeparatorsAndSpace(str) ==
    IF str = "" THEN ""
    ELSE (IF Ch(str, 1) \in {",", ";"} \/ IsSpace(Ch(str, 1)) THEN "" ELSE Ch(str, 1))
         \o StripSeparatorsAndSpace(From(str, 2))

\* the export route's handling of a product_tags value that is a string
ExportSplitTags(productTags) ==
    IF productTags.t = "string"
    THEN JSArray(SelectSeq(TrimAll(Split(productTags.s, {";", ","})), LAMBDA tag : tag # ""))
    ELSE productTags

IsCleanTag(tag) ==
    /\ tag # ""
    /\ Trim(tag) = tag
    /\ FirstIndexOf(tag, {",", ";"}) = 0

\* C7: once an item mapped to product_tags with a non-null value is
\* processed, product_tags is the array of the trimmed, non-empty parts
\* between ',' and ';' ("red, blue;green" gives red, blue, green), and
\* splitting that array again (as the client would on its comma-joined text,
\* and as the export does) gives the same array.
C7_TagsSplit ==
    (AtClassItem /\ Truthy(CurrentItem.category)
        /\ createFieldMapping(CurrentItem.category.s) = "product_tags"
        /\ ExtractedValue(CurrentItem) # JSNull) =>
        LET raw == CurrentItem.classLabel.s
            stored == FieldIn(ExtractedData, "product_tags")
        IN /\ stored.t = "array"
           /\ \A i \in 1..Len(stored.a) : IsCleanTag(stored.a[i])
           /\ StripSeparatorsAndSpace(Join(stored.a, "")) = StripSeparatorsAndSpace(raw)
           /\ raw = "red, blue;green" => stored.a = <<"red", "blue", "green">>
           /\ SplitTags(Join(stored.a, ",")) = stored.a
           /\ ExportSplitTags(stored) = stored
           /\ ExportSplitTags(JSString(raw)) = stored

C7_Witness ==
    /\ AtClassItem
    /\ CurrentItem = Item(JSString("Product Tags"), JSString("red, blue;green"))
    /\ FieldIn(ExtractedData, "product_tags") = JSArray(<<"red", "blue", "green">>)

\* the class item the loop consumes next
NextItem == FirstResult.classes[classIdx + 1]

\* a text of digits, '.' and '-' that starts like a decimal number
HasNumericPrefix(str) ==
    LET body == IF str # "" /\ Ch(str, 1) = "-" THEN From(str, 2) ELSE str
    IN /\ body # ""
       /\ \/ IsDigit(Ch(body, 1))
          \/ Ch(body, 1) = "." /\ Len(body) >= 2 /\ IsDigit(Ch(body, 2))

SameExcept(data1, data2, key) ==
    /\ (DOMAIN data1) \ {key} = (DOMAIN data2) \ {key}
    /\ \A k \in (DOMAIN data1) \ {key} : data1[k] = data2[k]

\* C8: processing an item mapped to price with a non-null value stores the
\* number under price when the value, reduced to digits, '.' and '-', parses
\* as a number ("$19.99" gives 19.99), and otherwise stores the raw value
\* under price_text and leaves price as it was; either way the item's line
\* reaches the combined text and nothing else changes.
C8_PriceOrPriceText ==
    [][ (parsePc = "classes" /\ classIdx' = classIdx + 1
            /\ Truthy(NextItem.category)
            /\ createFieldMapping(NextItem.category.s) = "price"
            /\ ExtractedValue(NextItem) # JSNull) =>
        LET raw == NextItem.classLabel.s
            stripped == StripNonPriceChars(raw)
        IN /\ HasNumericPrefix(stripped) =>
                /\ FieldIn(ExtractedData', "price").t = "number"
                /\ FieldIn(ExtractedData', "price") = ParseFloat(stripped)
                /\ SameExcept(ExtractedData', ExtractedData, "price")
           /\ ~HasNumericPrefix(stripped) =>
                /\ FieldIn(ExtractedData', "price_text") = JSString(raw)
                /\ SameExcept(ExtractedData', ExtractedData, "price_text")
           /\ raw = "$19.99" => FieldIn(ExtractedData', "price") = JSNumber(1999, 2)
           /\ raw = "from 1,200.50-" => FieldIn(ExtractedData', "price") = JSNumber(12005, 1)
           /\ raw \in {"N/A", "Blue Jacket", ""} => FieldIn(ExtractedData', "price_text") = JSString(raw)
           /\ combinedText' = combinedText \o NextItem.category.s \o ": " \o raw \o "\n"
      ]_vars

\* a parsed price followed by an unparseable one: both are kept
C8_Witness ==
    /\ AtClassItem
    /\ classIdx = 2
    /\ FirstResult.classes =
          <<Item(JSString("Price"), JSString("$19.99")), Item(JSString("cost"), JSString("N/A"))>>
    /\ FieldIn(ExtractedData, "price") = JSNumber(1999, 2)
    /\ FieldIn(ExtractedData, "price_text") = JSString("N/A")

InSynonymTable(normalized) == \E p \in Mappings : p[1] = normalized

CanonicalKey(normalized) == (CHOOSE p \in Mappings : p[1] = normalized)[2]

\* the field key the rule gives a category
RuleKey(category) ==
    LET normalized == Normalize(category)
    IN IF InSynonymTable(normalized) THEN CanonicalKey(normalized)
       ELSE IF Sanitize(normalized) = "" THEN "unknown_field" ELSE Sanitize(normalized)

\* C9: an item with a non-empty category is never dropped: it is stored
\* under the canonical key of its normalized category when the synonym table
\* has it, and otherwise under the sanitized category, or under unknown_field
\* when that is empty (an unparseable price being kept under price_text).
C9_KeyByTableOrSanitized ==
    (AtClassItem /\ Truthy(CurrentItem.category)) =>
        LET key == RuleKey(CurrentItem.category.s)
        IN \/ key \in DOMAIN ExtractedData
           \/ key = "price" /\ "price_text" \in DOMAIN ExtractedData

\* the same for every category but the one that names an inherited property
C9_ExceptInheritedNames ==
    (AtClassItem /\ Truthy(CurrentItem.category)
        /\ InheritedAsKey(Normalize(CurrentItem.category.s)) = "") =>
        /\ createFieldMapping(CurrentItem.category.s) = RuleKey(CurrentItem.category.s)
        /\ C9_KeyByTableOrSanitized

IsSkippedItem(classItem) ==
    classItem.category.t \in {"undefined", "null"} \/ classItem.category = JSString("")

WithoutSkipped(classes) == SelectSeq(classes, LAMBDA classItem : ~IsSkippedItem(classItem))

WithoutSkippedItems(results) ==
    [i \in 1..Len(results) |->
        [results[i] EXCEPT !.classes = WithoutSkipped(results[i].classes)]]

\* C10: an item with a missing or empty category adds no field and no line
\* to the combined text, and the reply is processed as the same reply
\* without such items, at every point of the loop and in the result.
C10_SkippedItemsAbsent ==
    /\ parsePc = "classes" =>
          LET kept == WithoutSkipped(SubSeq(FirstResult.classes, 1, classIdx))
          IN /\ [extractedData |-> ExtractedData, combinedText |-> combinedText]
                    = FoldClasses(EmptyAcc, kept, Len(kept))
             /\ Len(kept) = 0 => (KeyCount(ExtractedData) = 0 /\ combinedText = "")
    /\ parsePc = "done" =>
          parsedResponse = parseVisualIntelligenceResponse(WithoutSkippedItems(processedResults))

\* a skipped item followed by a usable one
C10_Witness ==
    /\ parsePc = "done"
    /\ Len(processedResults) = 1
    /\ FirstResult.classes =
          <<Item(JSUndefined, JSString("Blue Jacket")),
            Item(JSString("  Product   TITLE "), JSString("Blue Jacket"))>>
    /\ FirstResult.text = JSUndefined
    /\ DOMAIN ExtractedData = {"product_title"}
    /\ FieldIn(ExtractedData, "product_title") = JSString("Blue Jacket")
    /\ parsedResponse.text = "Product   TITLE : Blue Jacket"

----------------------------------------------------------------------------
(* Claims about the fallback path.                                          *)

\* a field that holds a value: a non-empty text, a number or a list
IsPopulated(data, key) == key \in DOMAIN data /\ Truthy(data[key])

\* C11: the fallback path never replaces a populated field: once the class
\* loop is over, every field it set keeps its value to the end of the call,
\* and a step of the fallback loop leaves every field that holds a value as
\* it is, whatever key the line maps to.
C11_FallbackNeverOverwrites ==
    [][ /\ parsePc' \in {"afterClasses", "fallback", "done"} =>
              \A k \in DOMAIN StructuredAcc.extractedData :
                  /\ k \in DOMAIN ExtractedData'
                  /\ FieldIn(ExtractedData', k) = StructuredAcc.extractedData[k]
        /\ parsePc = "fallback" =>
              \A k \in DOMAIN ExtractedData :
                  IsPopulated(ExtractedData, k) =>
                      FieldIn(ExtractedData', k) = FieldIn(ExtractedData, k)
      ]_vars

\* a text with two lines for product_title: the first one stays
C11_Witness ==
    /\ parsePc = "done"
    /\ usedFallback
    /\ Len(processedResults) = 1
    /\ FirstResult.text = JSString("Title: Red Scarf\nno colon here\n\nName: Second\nTags: a, b")
    /\ lineIdx = 4
    /\ createFieldMapping(KeyFromText(lines[3])) = "product_title"
    /\ FieldIn(ExtractedData, "product_title") = JSString("Red Scarf")

\* the lines among the first n that have the form "key: value"
MatchedUpTo(n) == {i \in 1..n : MatchesKeyValue(lines[i])}

\* the field key the rule gives the key of line i
LineKey(i) == RuleKey(KeyFromText(lines[i]))

\* no earlier line of the form "key: value" has the field key of line i
FirstForKey(i) == \A j \in MatchedUpTo(i - 1) : LineKey(j) # LineKey(i)

FallbackKeyValueHolds ==
    /\ (parsePc = "fallback" /\ lineIdx >= 1) =>
          /\ DOMAIN ExtractedData = {LineKey(i) : i \in MatchedUpTo(lineIdx)}
          /\ (MatchesKeyValue(lines[lineIdx]) /\ FirstForKey(lineIdx)) =>
                /\ KeyFromText(lines[lineIdx]) =
                      Trim(SubSeq(lines[lineIdx], 1, FirstIndexOf(lines[lineIdx], {":"}) - 1))
                /\ FieldIn(ExtractedData, LineKey(lineIdx))
                      = JSString(ValueFromText(lines[lineIdx]))
                /\ Trim(ValueFromText(lines[lineIdx])) = ValueFromText(lines[lineIdx])
    /\ (parsePc = "done" /\ Len(processedResults) = 1
            /\ KeyCount(StructuredAcc.extractedData) = 0
            /\ FirstResult.text = JSString("Product Title: Blue Jacket\nColor: Navy")) =>
          /\ DOMAIN ExtractedData = {"product_title", "color_variant"}
          /\ FieldIn(ExtractedData, "product_title") = JSString("Blue Jacket")
          /\ FieldIn(ExtractedData, "color_variant") = JSString("Navy")

\* C12: in the fallback path every line "key: value" (key = the text before
\* the first colon) is stored under the field key the synonym table or the
\* sanitization rule gives its normalized key, with the trimmed value, and
\* the lines without a colon add no field; the text
\* "Product Title: Blue Jacket\nColor: Navy" without classification items
\* gives product_title = "Blue Jacket" and color_variant = "Navy".
C12_FallbackKeyValue == FallbackKeyValueHolds

\* the same for the texts none of whose keys names an inherited property
C12_ExceptInheritedNames ==
    (\A i \in 1..Len(lines) :
        MatchesKeyValue(lines[i]) => InheritedAsKey(Normalize(KeyFromText(lines[i]))) = "")
    => FallbackKeyValueHolds

\* the example of the claim, reached
C12_ExampleReached ==
    /\ parsePc = "done"
    /\ usedFallback
    /\ Len(processedResults) = 1
    /\ FirstResult.text = JSString("Product Title: Blue Jacket\nColor: Navy")
    /\ FieldIn(ExtractedData, "color_variant") = JSString("Navy")

----------------------------------------------------------------------------
(* Claims about the result as a whole.                                      *)

\* the reply gives neither path anything: no result at all, or a first result
\* whose items all lack a category and that carries no text
YieldsNothing(reply) ==
    \/ Len(reply) = 0
    \/ /\ \A i \in 1..Len(reply[1].classes) : IsSkippedItem(reply[1].classes[i])
       /\ ~Truthy(reply[1].text)

\* C13: when neither path yields anything the call still returns, and what it
\* returns has no field and an empty text; the fallback branch was not taken
\* and the combined text of the class loop is empty.
C13_EmptyResult ==
    (parsePc = "done" /\ YieldsNothing(processedResults)) =>
        /\ DOMAIN ExtractedData = {}
        /\ parsedResponse.text = ""
        /\ combinedText = ""
        /\ ~usedFallback

\* a reply whose only item has no category and whose text is empty
C13_Witness ==
    /\ parsePc = "done"
    /\ Len(processedResults) = 1
    /\ FirstResult.classes = <<Item(JSUndefined, JSString("Blue Jacket"))>>
    /\ FirstResult.text = JSString("")
    /\ KeyCount(ExtractedData) = 0
    /\ parsedResponse.text = ""

\* what the call returns: a record with a text and fields that are null, a
\* text, a number or a list of texts
IsResultRecord ==
    /\ DOMAIN parsedResponse = {"text", "extractedData"}
    /\ \A k \in DOMAIN ExtractedData :
          ExtractedData[k].t \in {"null", "string", "number", "array"}

\* how far the call is from its return statement: the statements still to
\* pass, then the items or lines its current loop still has to take
PcRank ==
    CASE parsePc = "idle" -> 4
      [] parsePc = "classes" -> 3
      [] parsePc = "afterClasses" -> 2
      [] parsePc = "fallback" -> 1
      [] OTHER -> 0

LoopRemaining ==
    CASE parsePc = "classes" -> Len(FirstResult.classes) - classIdx
      [] parsePc = "fallback" -> Len(lines) - lineIdx
      [] OTHER -> 0

\* the call is at a statement it can run
HasNextStatement ==
    \/ parsePc \in {"idle", "afterClasses"}
    \/ parsePc = "classes" /\ classIdx <= Len(FirstResult.classes)
    \/ parsePc = "fallback" /\ lineIdx <= Len(lines)

\* C14: extraction never throws: whatever reply of the accepted shapes it is
\* called with, the call never ends in a throw, a call that has not returned
\* is at a statement it can run, every statement brings it closer to its
\* return statement, and what it returns is a result record.
C14_AlwaysReturns ==
    /\ [](parsePc # "thrown")
    /\ [](parsePc # "done" => HasNextStatement)
    /\ [][ \/ PcRank' < PcRank
           \/ PcRank' = PcRank /\ LoopRemaining' < LoopRemaining /\ LoopRemaining' >= 0 ]_vars
    /\ [](parsePc = "done" => IsResultRecord)

\* the call has returned for a reply whose items have every shape at once:
\* no category with a label, and a category with the label "null"
C14_Witness ==
    /\ parsePc = "done"
    /\ Len(processedResults) = 1
    /\ FirstResult.classes =
          <<Item(JSUndefined, JSString("Blue Jacket")), Item(JSString("title"), JSString("null"))>>
    /\ FirstResult.text = JSString("Product Title: Blue Jacket\nColor: Navy")
    /\ IsResultRecord
    /\ FieldIn(ExtractedData, "product_title") = JSNull

----------------------------------------------------------------------------
(* The prompt builder called again and again on one client.                 *)

MaxCalls == 3

\* the arguments of a call
CallArgs ==
    {[questions |-> qs, productType |-> pt, checkboxQuestions |-> cbs] :
        qs \in {<<>>, <<"What is the main color?">>},
        pt \in {JSUndefined, JSString("t-shirt")},
        cbs \in {<<>>, <<"productTitle", "altText">>}}

InitBuilder ==
    /\ questions = <<>>
    /\ productType = JSUndefined
    /\ checkboxQuestions = <<>>
    /\ categories = <<>>
    /\ pop = NoPop
    /\ ParseIdle
    /\ ClientIdle
    /\ AppIdle

\* one call of createVisualIntelligencePop, which calls
\* buildComprehensivePrompt; builds records the arguments and the prompt
createVisualIntelligencePopCall(args) ==
    /\ Len(builds) < MaxCalls
    /\ questions' = args.questions
    /\ productType' = args.productType
    /\ checkboxQuestions' = args.checkboxQuestions
    /\ categories' = BuildCategories(args.questions, args.productType, args.checkboxQuestions)
    /\ pop' = PopOf(buildComprehensivePrompt(args.questions, args.productType,
                                             args.checkboxQuestions))
    /\ builds' = Append(builds,
                        [args |-> args,
                         prompt |-> buildComprehensivePrompt(args.questions, args.productType,
                                                             args.checkboxQuestions)])
    /\ UNCHANGED parseVars
    /\ UNCHANGED <<isConnected, endpointCalls, caller, images, outcomes, imageIdx,
                   batchResults, clientPc, callResult>>
    /\ UNCHANGED appVars

NextBuilder == \E args \in CallArgs : createVisualIntelligencePopCall(args)

SpecBuilder == InitBuilder /\ [][NextBuilder]_vars

----------------------------------------------------------------------------
(* Claims about the structured path.                                        *)

\* the line the claim gives an item: its category as received, then its
\* classLabel, or null for a missing, null or "null" classLabel
ItemLine(classItem) ==
    ToJSString(classItem.category) \o ": "
    \o (IF classItem.classLabel.t \in {"undefined", "null"}
           \/ classItem.classLabel = JSString("null")
        THEN "null" ELSE ToJSString(classItem.classLabel))

\* one line per item with a non-empty category, in item order
ItemLines(classes) ==
    [i \in 1..Len(WithoutSkipped(classes)) |-> ItemLine(WithoutSkipped(classes)[i])]

RECURSIVE Terminated(_)
Terminated(ls) == IF Len(ls) = 0 THEN "" ELSE ls[1] \o "\n" \o Terminated(Tail(ls))

AfterStructuredPath ==
    parsePc = "afterClasses" /\ Len(processedResults) > 0 /\ HasClasses(FirstResult)

\* C16 as stated: after the structured path the combined text is the
\* newline-joined sequence of the lines "{category}: {value or 'null'}", one
\* per item with a non-empty category, in item order, the category as
\* received.
C16_CombinedTextLines ==
    AfterStructuredPath => parsedResponse.text = Join(ItemLines(FirstResult.classes), "\n")

\* C16 as the code has it: the loop appends each such line followed by a
\* newline, and the text of the result is that text without the whitespace
\* at its two ends, so the whitespace before the first category and after the
\* last value is lost; everything in between is as received.
C16_TrimmedCombinedText ==
    /\ parsePc = "classes" =>
          combinedText = Terminated(ItemLines(SubSeq(FirstResult.classes, 1, classIdx)))
    /\ AfterStructuredPath =>
          /\ combinedText = Terminated(ItemLines(FirstResult.classes))
          /\ parsedResponse.text = Trim(Join(ItemLines(FirstResult.classes), "\n"))

\* a first category with whitespace around it, and a "null" classLabel
C16_Witness ==
    /\ AfterStructuredPath
    /\ FirstResult.classes =
          <<Item(JSString("  Product   TITLE "), JSString("Blue Jacket")),
            Item(JSString("title"), JSString("null"))>>
    /\ parsedResponse.text = "Product   TITLE : Blue Jacket\ntitle: null"

TagsFieldIsArray ==
    ("product_tags" \in DOMAIN ExtractedData
        /\ FieldIn(ExtractedData, "product_tags") # JSNull) =>
        /\ FieldIn(ExtractedData, "product_tags").t = "array"
        /\ \A i \in 1..Len(FieldIn(ExtractedData, "product_tags").a) :
              IsCleanTag(FieldIn(ExtractedData, "product_tags").a[i])

\* C17: in every result the extractor returns, whichever path produced it, a
\* product_tags value that is not null is an array of trimmed, non-empty
\* texts, never a plain text.
C17_TagsAlwaysArray == parsePc = "done" => TagsFieldIsArray

\* the same for the results of the structured path alone
C17_StructuredPathOnly == (parsePc = "done" /\ ~usedFallback) => TagsFieldIsArray

\* the fallback path has stored the tags of a "Tags:" line
C17_FallbackTags ==
    /\ parsePc = "done"
    /\ usedFallback
    /\ FieldIn(ExtractedData, "product_tags") = JSString("a, b")

\* the items the loop has taken that have a category
TakenItems == WithoutSkipped(SubSeq(FirstResult.classes, 1, classIdx))

ItemFieldKey(classItem) == createFieldMapping(ToJSString(classItem.category))

\* what an item writes on its own: one key and the value derived from it
WrittenAlone(classItem) == StoreValue(<<>>, ItemFieldKey(classItem), ExtractedValue(classItem))
WrittenKey(classItem) == CHOOSE k \in DOMAIN WrittenAlone(classItem) : TRUE
WrittenValue(classItem) == WrittenAlone(classItem)[WrittenKey(classItem)]

\* item j is the last taken item with its field key, and not the only one
IsLaterOfSeveral(j) ==
    /\ \E i \in 1..(j - 1) : ItemFieldKey(TakenItems[i]) = ItemFieldKey(TakenItems[j])
    /\ \A i \in (j + 1)..Len(TakenItems) :
          ItemFieldKey(TakenItems[i]) # ItemFieldKey(TakenItems[j])

\* C18 as stated: when several items of a reply map to one field key, that
\* key holds the value derived from the last of them, a null included, for
\* every field key, price and product_tags included.
C18_LastWriteWins ==
    (parsePc = "classes") =>
        \A j \in 1..Len(TakenItems) :
            IsLaterOfSeveral(j) =>
                FieldIn(ExtractedData, ItemFieldKey(TakenItems[j])) = WrittenValue(TakenItems[j])

\* C18 as the code has it: every item writes one key, its field key, except
\* an item mapped to price whose value is not null and does not parse as a
\* number, which writes price_text and leaves price to the earlier items;
\* each key of the result holds what the last item that wrote it derived,
\* a null included, and for every field key but price that item is the last
\* one mapped to the key.
C18_LastWriterWins ==
    (parsePc = "classes") =>
        /\ DOMAIN ExtractedData = {WrittenKey(TakenItems[j]) : j \in 1..Len(TakenItems)}
        /\ \A j \in 1..Len(TakenItems) :
              /\ WrittenKey(TakenItems[j]) # ItemFieldKey(TakenItems[j]) =>
                    /\ ItemFieldKey(TakenItems[j]) = "price"
                    /\ WrittenKey(TakenItems[j]) = "price_text"
                    /\ WrittenValue(TakenItems[j]) = ExtractedValue(TakenItems[j])
              /\ (\A i \in (j + 1)..Len(TakenItems) :
                      WrittenKey(TakenItems[i]) # WrittenKey(TakenItems[j])) =>
                    FieldIn(ExtractedData, WrittenKey(TakenItems[j])) = WrittenValue(TakenItems[j])
              /\ (IsLaterOfSeveral(j) /\ ItemFieldKey(TakenItems[j]) # "price") =>
                    FieldIn(ExtractedData, ItemFieldKey(TakenItems[j]))
                        = WrittenValue(TakenItems[j])

\* tags, then a "null" for the same key: the null is what the key holds
C18_Witness ==
    /\ parsePc = "classes"
    /\ classIdx = 2
    /\ FirstResult.classes =
          <<Item(JSString("Product Tags"), JSString("red, blue;green")),
            Item(JSString("Product Tags"), JSString("null"))>>
    /\ "product_tags" \in DOMAIN ExtractedData
    /\ FieldIn(ExtractedData, "product_tags") = JSNull

\* a parsed price, then an unparseable one: price keeps the earlier value
C18_PriceKeepsEarlier ==
    /\ parsePc = "classes"
    /\ classIdx = 2
    /\ FirstResult.classes =
          <<Item(JSString("Price"), JSString("$19.99")), Item(JSString("cost"), JSString("N/A"))>>
    /\ FieldIn(ExtractedData, "price") = JSNumber(1999, 2)

----------------------------------------------------------------------------
(* processBatch and the processImage... methods.                            *)

MaxImages == 2

\* an image of the batch; "" stands for a missing path, url or mimeType
Image(path, url, hasData, mimeType) ==
    [path |-> path, url |-> url, hasData |-> hasData, mimeType |-> mimeType]

ImageKinds ==
    { Image("a.jpg", "", FALSE, ""),
      Image("", "https://cdn.example/b.png", FALSE, ""),
      Image("", "", TRUE, "image/png"),
      Image("", "", TRUE, "") }

\* the argument of a direct processImageStream call
StreamImage == Image("", "", FALSE, "image/jpeg")

\* the branch of processBatch an image takes
MethodFor(image) ==
    IF image.path # "" THEN "processImageByPath"
    ELSE IF image.url # "" THEN "processImageByUrl"
    ELSE IF image.hasData /\ image.mimeType # "" THEN "processImageData"
    ELSE "invalid"

\* image.path || image.url || 'uploaded-image'
ImageLabel(image) ==
    IF image.path # "" THEN image.path
    ELSE IF image.url # "" THEN image.url ELSE "uploaded-image"

InvalidImageMessage == "Invalid image format. Must provide path, url, or data+mimeType"

\* the replies of the vision service used here
ServiceReplies ==
    { <<>>,
      <<[hasClasses |-> TRUE,
         classes |-> <<Item(JSString("title"), JSString("Blue Jacket"))>>,
         text |-> JSUndefined]>> }

\* what the service does for one image: the await that rejects, if any, and
\* the results it streams otherwise
Outcomes ==
    {[failAt |-> f, reply |-> <<>>] : f \in {"connect", "changePop", "process"}}
    \cup {[failAt |-> "none", reply |-> r] : r \in ServiceReplies}

\* the message of the error the endpoint rejects with
ServiceError(failAt) == failAt \o " failed"

\* the arguments a caller passes along with the images
BatchArgs ==
    { [questions |-> <<>>, productType |-> JSUndefined,
       checkboxQuestions |-> <<"productTitle", "altText">>],
      [questions |-> <<"What is the main color?">>, productType |-> JSString("t-shirt"),
       checkboxQuestions |-> <<>>] }

\* a call received by the SDK endpoint, for the image with the given index
\* (0: before any image)
EndpointCall(op, image, popDefinition, source) ==
    [op |-> op, image |-> image, pop |-> popDefinition, source |-> source]

\* the argument of endpoint.process
ProcessSource(image) ==
    IF image.path # "" THEN "file:" \o image.path
    ELSE IF image.url # "" THEN "url:" \o image.url
    ELSE "stream:" \o image.mimeType

Returned(parsed) == [kind |-> "return", error |-> "", result |-> parsed]
Thrown(message) == [kind |-> "throw", error |-> message, result |-> InitialParsedResponse]

\* an entry of the array processBatch returns; a failed entry has no result
\* and a successful one no error
Entry(image, completion) ==
    [success |-> completion.kind = "return",
     image |-> ImageLabel(image),
     result |-> completion.result,
     error |-> completion.error]

\* a caller has a new client, may have called connect() on it, and calls
\* processBatch with a list of images or processImageStream with one stream;
\* the service's behaviour for each image is fixed in advance
InitBatch ==
    /\ \E args \in BatchArgs :
          /\ questions = args.questions
          /\ productType = args.productType
          /\ checkboxQuestions = args.checkboxQuestions
    /\ categories = <<>>
    /\ pop = NoPop
    /\ ParseIdle
    /\ isConnected \in BOOLEAN
    /\ endpointCalls = IF isConnected THEN <<EndpointCall("connect", 0, NoPop, "")>> ELSE <<>>
    /\ caller \in {"processBatch", "processImageStream"}
    /\ images \in IF caller = "processBatch"
                  THEN SeqsUpTo(ImageKinds, MaxImages) ELSE {<<StreamImage>>}
    /\ outcomes \in [1..Len(images) -> Outcomes]
    /\ imageIdx = IF caller = "processBatch" THEN 0 ELSE 1
    /\ batchResults = <<>>
    /\ clientPc = IF caller = "processBatch" THEN "loop" ELSE "connect"
    /\ callResult = NoCompletion
    /\ builds = <<>>
    /\ AppIdle

\* where a processImage... call goes when it completes
AfterCall == IF caller = "processBatch" THEN "collect" ELSE "returned"

\* for (const image of images): the next image and its branch
processBatchNext ==
    /\ clientPc = "loop"
    /\ imageIdx < Len(images)
    /\ imageIdx' = imageIdx + 1
    /\ IF MethodFor(images[imageIdx + 1]) = "invalid"
       THEN /\ callResult' = Thrown(InvalidImageMessage)
            /\ clientPc' = "collect"
       ELSE /\ callResult' = NoCompletion
            /\ clientPc' = "connect"
    /\ UNCHANGED <<isConnected, endpointCalls, caller, images, outcomes, batchResults, builds>>
    /\ UNCHANGED promptVars
    /\ UNCHANGED parseVars
    /\ UNCHANGED appVars

\* if (!this.isConnected) await this.connect()
connectStep ==
    /\ clientPc = "connect"
    /\ IF isConnected
       THEN /\ clientPc' = "changePop"
            /\ UNCHANGED <<isConnected, endpointCalls, callResult>>
       ELSE /\ endpointCalls' = Append(endpointCalls, EndpointCall("connect", imageIdx, NoPop, ""))
            /\ IF outcomes[imageIdx].failAt = "connect"
               THEN /\ isConnected' = FALSE
                    /\ callResult' = Thrown(ServiceError("connect"))
                    /\ clientPc' = AfterCall
               ELSE /\ isConnected' = TRUE
                    /\ clientPc' = "changePop"
                    /\ UNCHANGED callResult
    /\ UNCHANGED <<caller, images, outcomes, imageIdx, batchResults, builds>>
    /\ UNCHANGED promptVars
    /\ UNCHANGED parseVars
    /\ UNCHANGED appVars

\* const pop = this.createVisualIntelligencePop(...); await this.endpoint.changePop(pop)
changePopStep ==
    /\ clientPc = "changePop"
    /\ categories' = BuildCategories(questions, productType, checkboxQuestions)
    /\ pop' = PopOf(buildComprehensivePrompt(questions, productType, checkboxQuestions))
    /\ endpointCalls' = Append(endpointCalls, EndpointCall("changePop", imageIdx, pop', ""))
    /\ IF outcomes[imageIdx].failAt = "changePop"
       THEN /\ callResult' = Thrown(ServiceError("changePop"))
            /\ clientPc' = AfterCall
       ELSE /\ clientPc' = "process"
            /\ UNCHANGED callResult
    /\ UNCHANGED <<questions, productType, checkboxQuestions>>
    /\ UNCHANGED <<isConnected, caller, images, outcomes, imageIdx, batchResults, builds>>
    /\ UNCHANGED parseVars
    /\ UNCHANGED appVars

\* await this.endpoint.process(...), the results collected and parsed
processStep ==
    /\ clientPc = "process"
    /\ endpointCalls' = Append(endpointCalls,
                               EndpointCall("process", imageIdx, NoPop,
                                            ProcessSource(images[imageIdx])))
    /\ callResult' = IF outcomes[imageIdx].failAt = "process"
                     THEN Thrown(ServiceError("process"))
                     ELSE Returned(parseVisualIntelligenceResponse(outcomes[imageIdx].reply))
    /\ clientPc' = AfterCall
    /\ UNCHANGED <<isConnected, caller, images, outcomes, imageIdx, batchResults, builds>>
    /\ UNCHANGED promptVars
    /\ UNCHANGED parseVars
    /\ UNCHANGED appVars

\* faulty variant: the error of a failed image thrown on to the caller
processBatchCollect_AbortsOnError ==
    /\ clientPc = "collect"
    /\ IF callResult.kind = "return"
       THEN /\ batchResults' = Append(batchResults, Entry(images[imageIdx], callResult))
            /\ clientPc' = "loop"
       ELSE /\ clientPc' = "returned"
            /\ UNCHANGED batchResults
    /\ UNCHANGED <<isConnected, endpointCalls, caller, images, outcomes, imageIdx,
                   callResult, builds>>
    /\ UNCHANGED promptVars
    /\ UNCHANGED parseVars
    /\ UNCHANGED appVars

\* results.push({success: true, ...}) and the catch block's results.push
processBatchCollect ==
    /\ clientPc = "collect"
    /\ batchResults' = Append(batchResults, Entry(images[imageIdx], callResult))
    /\ clientPc' = "loop"
    /\ UNCHANGED <<isConnected, endpointCalls, caller, images, outcomes, imageIdx,
                   callResult, builds>>
    /\ UNCHANGED promptVars
    /\ UNCHANGED parseVars
    /\ UNCHANGED appVars

\* return results
processBatchReturn ==
    /\ clientPc = "loop"
    /\ imageIdx = Len(images)
    /\ clientPc' = "returned"
    /\ UNCHANGED <<isConnected, endpointCalls, caller, images, outcomes, imageIdx,
                   batchResults, callResult, builds>>
    /\ UNCHANGED promptVars
    /\ UNCHANGED parseVars
    /\ UNCHANGED appVars

NextBatch ==
    \/ processBatchNext
    \/ connectStep
    \/ changePopStep
    \/ processStep
    \/ processBatchCollect
    \/ processBatchReturn

SpecBatch == InitBatch /\ [][NextBatch]_vars

----------------------------------------------------------------------------
(* Claims about processBatch and the calls sent to the vision service.      *)

\* the caller had connected the client before the call
ConnectedAtEntry == Len(endpointCalls) > 0 /\ endpointCalls[1].image = 0

\* the client is connected when image i is taken: a connect() has succeeded
ConnectedBefore(i) ==
    \/ ConnectedAtEntry
    \/ \E j \in 1..(i - 1) :
          MethodFor(images[j]) # "invalid" /\ outcomes[j].failAt # "connect"

\* the processing of image i fails
FailsFor(i) ==
    \/ MethodFor(images[i]) = "invalid"
    \/ outcomes[i].failAt \in {"changePop", "process"}
    \/ outcomes[i].failAt = "connect" /\ ~ConnectedBefore(i)

FailureMessage(i) ==
    IF MethodFor(images[i]) = "invalid" THEN InvalidImageMessage
    ELSE outcomes[i].failAt \o " failed"

\* C19: processBatch returns exactly one entry per image, in input order; an
\* image whose processing fails (an error of the service, or neither path,
\* url nor data with mimeType given) gets an entry with success = false and
\* the error's message, the other images get success = true and their own
\* parsed result, no failure ends the loop early, and an entry once written
\* is never changed.
C19_OneEntryPerImage ==
    /\ [](caller = "processBatch" =>
            /\ Len(batchResults) <= imageIdx
            /\ imageIdx <= Len(images)
            /\ \A i \in 1..Len(batchResults) :
                  /\ batchResults[i].image = ImageLabel(images[i])
                  /\ batchResults[i].success = ~FailsFor(i)
                  /\ FailsFor(i) => batchResults[i].error = FailureMessage(i)
                  /\ ~FailsFor(i) =>
                        batchResults[i].result
                            = parseVisualIntelligenceResponse(outcomes[i].reply)
            /\ clientPc = "returned" => Len(batchResults) = Len(images))
    /\ [][caller = "processBatch" =>
            /\ Len(batchResults') \in {Len(batchResults), Len(batchResults) + 1}
            /\ SubSeq(batchResults', 1, Len(batchResults)) = batchResults]_vars

\* an image without mimeType, then a url whose processing succeeds
C19_Witness ==
    /\ caller = "processBatch"
    /\ clientPc = "returned"
    /\ images = <<Image("", "", TRUE, ""), Image("", "https://cdn.example/b.png", FALSE, "")>>
    /\ Len(batchResults) = 2
    /\ batchResults[1].success = FALSE
    /\ batchResults[1].image = "uploaded-image"
    /\ batchResults[1].error = InvalidImageMessage
    /\ batchResults[2].success = TRUE
    /\ batchResults[2].image = "https://cdn.example/b.png"
    /\ FieldIn(batchResults[2].result.extractedData, "product_title") = JSString("Blue Jacket")

\* a service error in the first image, and the second one still processed
C19_ServiceErrorThenSuccess ==
    /\ caller = "processBatch"
    /\ clientPc = "returned"
    /\ Len(batchResults) = 2
    /\ batchResults[1].success = FALSE
    /\ batchResults[1].error = "process failed"
    /\ batchResults[2].success = TRUE

CallsFor(op, image) ==
    {i \in 1..Len(endpointCalls) :
        endpointCalls[i].op = op /\ endpointCalls[i].image = image}

C20_StreamCall ==
    /\ caller = "processImageStream"
    /\ clientPc = "returned"
    /\ callResult.kind = "return"
    /\ endpointCalls[Len(endpointCalls)] = EndpointCall("process", 1, NoPop, "stream:image/jpeg")

----------------------------------------------------------------------------
----------------------------------------------------------------------------
----------------------------------------------------------------------------
(* One EyePopClient over its life: connect, disconnect and the process...   *)
(* methods called one after the other, each call awaited, and the static    *)
(* testConnection on a client of its own.                                   *)

MaxMethodCalls == 3

ProcessMethods ==
    {"processImageByPath", "processImageData", "processImageByUrl", "processImageStream"}

ClientMethods == {"connect", "disconnect"} \cup ProcessMethods

\* a call the SDK endpoint received: during which public call, with which
\* value of isConnected, and whether its promise resolved
SdkCall(op, call, connected, resolved) ==
    [op |-> op, call |-> call, connected |-> connected, resolved |-> resolved]

InitClient ==
    /\ questions = <<>>
    /\ productType = JSUndefined
    /\ checkboxQuestions = <<>>
    /\ categories = <<>>
    /\ pop = NoPop
    /\ ParseIdle
    /\ ClientIdle
    /\ AppIdle

\* the caller invokes a public method of the client once the previous call
\* has completed, or testConnection on a client made for it
callMethod ==
    /\ clientPc \in {"idle", "returned"}
    /\ testResult = "none"
    /\ caller # "testConnection"
    /\ callCount < MaxMethodCalls
    /\ \E method \in ClientMethods \cup {"testConnection"} :
          /\ method = "testConnection" => callCount = 0
          /\ caller' = method
          /\ clientPc' = IF method = "disconnect" THEN "disconnect" ELSE "connect"
    /\ callCount' = callCount + 1
    /\ callResult' = NoCompletion
    /\ UNCHANGED <<isConnected, endpointCalls, images, outcomes, imageIdx, batchResults,
                   builds, testResult>>
    /\ UNCHANGED <<promptVars, parseVars, exportVars, routeVars, webhookVars, wizardVars>>

\* faulty variant: a process... method goes on after a failed connect
clientConnect_ContinuesOnFailure ==
    /\ clientPc = "connect"
    /\ IF caller \in ProcessMethods /\ isConnected
       THEN /\ clientPc' = "changePop"
            /\ UNCHANGED <<isConnected, endpointCalls, callResult, testResult>>
       ELSE \E resolved \in BOOLEAN :
               /\ endpointCalls' = Append(endpointCalls,
                                          SdkCall("connect", callCount, isConnected, resolved))
               /\ isConnected' = resolved
               /\ clientPc' = IF caller \in ProcessMethods THEN "changePop"
                              ELSE IF caller = "testConnection" /\ resolved THEN "disconnect"
                              ELSE "returned"
               /\ callResult' = IF resolved \/ caller \in ProcessMethods
                                THEN (IF caller = "connect"
                                      THEN Returned(InitialParsedResponse) ELSE callResult)
                                ELSE Thrown(ServiceError("connect"))
               /\ testResult' = IF caller = "testConnection" /\ ~resolved
                                THEN "false" ELSE testResult
    /\ UNCHANGED <<caller, images, outcomes, imageIdx, batchResults, builds, callCount>>
    /\ UNCHANGED <<promptVars, parseVars, exportVars, routeVars, webhookVars, wizardVars>>

\* connect(), and the `if (!this.isConnected) await this.connect()` that
\* opens every process... method; testConnection catches the error
clientConnect ==
    /\ clientPc = "connect"
    /\ IF caller \in ProcessMethods /\ isConnected
       THEN /\ clientPc' = "changePop"
            /\ UNCHANGED <<isConnected, endpointCalls, callResult, testResult>>
       ELSE \E resolved \in BOOLEAN :
               /\ endpointCalls' = Append(endpointCalls,
                                          SdkCall("connect", callCount, isConnected, resolved))
               /\ isConnected' = resolved
               /\ clientPc' = IF ~resolved THEN "returned"
                              ELSE IF caller \in ProcessMethods THEN "changePop"
                              ELSE IF caller = "testConnection" THEN "disconnect"
                              ELSE "returned"
               /\ callResult' = IF ~resolved /\ caller # "testConnection"
                                THEN Thrown(ServiceError("connect"))
                                ELSE IF caller = "connect"
                                THEN Returned(InitialParsedResponse) ELSE callResult
               /\ testResult' = IF caller = "testConnection" /\ ~resolved
                                THEN "false" ELSE testResult
    /\ UNCHANGED <<caller, images, outcomes, imageIdx, batchResults, builds, callCount>>
    /\ UNCHANGED <<promptVars, parseVars, exportVars, routeVars, webhookVars, wizardVars>>

\* const pop = this.createVisualIntelligencePop(...); await this.endpoint.changePop(pop)
clientChangePop ==
    /\ clientPc = "changePop"
    /\ categories' = BuildCategories(questions, productType, checkboxQuestions)
    /\ pop' = PopOf(buildComprehensivePrompt(questions, productType, checkboxQuestions))
    /\ \E resolved \in BOOLEAN :
          /\ endpointCalls' = Append(endpointCalls,
                                     SdkCall("changePop", callCount, isConnected, resolved))
          /\ clientPc' = IF resolved THEN "process" ELSE "returned"
          /\ callResult' = IF resolved THEN callResult
                           ELSE Thrown(ServiceError("changePop"))
    /\ UNCHANGED <<questions, productType, checkboxQuestions>>
    /\ UNCHANGED <<isConnected, caller, images, outcomes, imageIdx, batchResults, builds,
                   callCount, testResult>>
    /\ UNCHANGED <<parseVars, exportVars, routeVars, webhookVars, wizardVars>>

\* await this.endpoint.process(...), the results collected and parsed
clientProcess ==
    /\ clientPc = "process"
    /\ \E resolved \in BOOLEAN :
          /\ endpointCalls' = Append(endpointCalls,
                                     SdkCall("process", callCount, isConnected, resolved))
          /\ callResult' = IF resolved
                           THEN Returned(parseVisualIntelligenceResponse(<<>>))
                           ELSE Thrown(ServiceError("process"))
    /\ clientPc' = "returned"
    /\ UNCHANGED <<isConnected, caller, images, outcomes, imageIdx, batchResults, builds,
                   callCount, testResult>>
    /\ UNCHANGED <<promptVars, parseVars, exportVars, routeVars, webhookVars, wizardVars>>

\* faulty variant: the flag cleared before the endpoint has disconnected
clientDisconnect_ClearsFlagFirst ==
    /\ clientPc = "disconnect"
    /\ IF isConnected
       THEN \E resolved \in BOOLEAN :
               /\ endpointCalls' = Append(endpointCalls,
                                          SdkCall("disconnect", callCount, isConnected, resolved))
               /\ isConnected' = FALSE
       ELSE UNCHANGED <<isConnected, endpointCalls>>
    /\ clientPc' = "returned"
    /\ callResult' = IF caller = "disconnect" THEN Returned(InitialParsedResponse)
                     ELSE callResult
    /\ testResult' = IF caller = "testConnection" THEN "true" ELSE testResult
    /\ UNCHANGED <<caller, images, outcomes, imageIdx, batchResults, builds, callCount>>
    /\ UNCHANGED <<promptVars, parseVars, exportVars, routeVars, webhookVars, wizardVars>>

\* disconnect(): the endpoint is disconnected when the client is connected,
\* and an error of the endpoint is logged, not thrown; testConnection
\* returns true after it
clientDisconnect ==
    /\ clientPc = "disconnect"
    /\ IF isConnected
       THEN \E resolved \in BOOLEAN :
               /\ endpointCalls' = Append(endpointCalls,
                                          SdkCall("disconnect", callCount, isConnected, resolved))
               /\ isConnected' = ~resolved
       ELSE UNCHANGED <<isConnected, endpointCalls>>
    /\ clientPc' = "returned"
    /\ callResult' = IF caller = "disconnect" THEN Returned(InitialParsedResponse)
                     ELSE callResult
    /\ testResult' = IF caller = "testConnection" THEN "true" ELSE testResult
    /\ UNCHANGED <<caller, images, outcomes, imageIdx, batchResults, builds, callCount>>
    /\ UNCHANGED <<promptVars, parseVars, exportVars, routeVars, webhookVars, wizardVars>>

NextClient ==
    \/ callMethod
    \/ clientConnect
    \/ clientChangePop
    \/ clientProcess
    \/ clientDisconnect

SpecClient == InitClient /\ [][NextClient]_vars

----------------------------------------------------------------------------
(* Claims about the client's connection state.                              *)

\* the endpoint has just received a call
EndpointCalled == Len(endpointCalls') = Len(endpointCalls) + 1
LastCall == endpointCalls[Len(endpointCalls)]

\* C23: a process... method calls endpoint.changePop and endpoint.process
\* only while isConnected is true; it calls endpoint.connect first exactly
\* when the client is not connected, and when that connect fails the method
\* throws the error, isConnected is false and neither changePop nor process
\* is called in that call.
C23_ProcessOnlyWhenConnected ==
    /\ [](\A i \in 1..Len(endpointCalls) :
             /\ endpointCalls[i].op \in {"changePop", "process"} => endpointCalls[i].connected
             /\ (endpointCalls[i].op = "connect" /\ ~endpointCalls[i].resolved) =>
                   \A j \in (i + 1)..Len(endpointCalls) :
                      endpointCalls[j].call # endpointCalls[i].call)
    /\ [][(EndpointCalled /\ caller \in ProcessMethods) =>
             /\ LastCall'.op \in {"changePop", "process"} => isConnected /\ isConnected'
             /\ LastCall'.op = "connect" =>
                   /\ ~isConnected
                   /\ isConnected' = LastCall'.resolved
                   /\ ~LastCall'.resolved =>
                         /\ clientPc' = "returned"
                         /\ callResult' = Thrown("connect failed")]_vars
    /\ [][(caller \in ProcessMethods /\ clientPc = "connect" /\ ~isConnected)
             => EndpointCalled /\ LastCall'.op = "connect"]_vars

\* a process... call on a new client whose connect failed, then one that
\* connected and processed
C23_Witness ==
    /\ clientPc = "returned"
    /\ caller = "processImageData"
    /\ callCount = 2
    /\ callResult.kind = "return"
    /\ Len(endpointCalls) = 4
    /\ endpointCalls[1] = SdkCall("connect", 1, FALSE, FALSE)
    /\ endpointCalls[2] = SdkCall("connect", 2, FALSE, TRUE)
    /\ endpointCalls[3] = SdkCall("changePop", 2, TRUE, TRUE)
    /\ endpointCalls[4] = SdkCall("process", 2, TRUE, TRUE)

\* a failed connect just thrown by a process... method
C23_FailedConnectThrown ==
    /\ caller = "processImageByPath"
    /\ clientPc = "returned"
    /\ callResult = Thrown("connect failed")
    /\ ~isConnected
    /\ LastCall = SdkCall("connect", callCount, FALSE, FALSE)

\* C24: disconnect never throws; it calls endpoint.disconnect only when
\* isConnected is true, isConnected becomes false when that call succeeds and
\* stays true when it fails, and disconnect changes isConnected in no other
\* way; testConnection never throws, returns true when its connect succeeded,
\* whatever its disconnect did, and false when its connect failed.
C24_DisconnectAndTest ==
    /\ [](caller \in {"disconnect", "testConnection"} => callResult.kind # "throw")
    /\ [](\A i \in 1..Len(endpointCalls) :
             endpointCalls[i].op = "disconnect" => endpointCalls[i].connected)
    /\ [][(EndpointCalled /\ LastCall'.op = "disconnect") =>
             /\ isConnected
             /\ isConnected' = ~LastCall'.resolved]_vars
    /\ [][(clientPc = "disconnect" /\ ~EndpointCalled) =>
             ~isConnected /\ ~isConnected']_vars
    /\ [][(clientPc = "disconnect" /\ isConnected) =>
             EndpointCalled /\ LastCall'.op = "disconnect"]_vars
    /\ [](testResult # "none" =>
             /\ caller = "testConnection"
             /\ clientPc = "returned"
             /\ endpointCalls[1].op = "connect"
             /\ testResult = IF endpointCalls[1].resolved THEN "true" ELSE "false")
    /\ []((caller = "testConnection" /\ clientPc = "returned") => testResult # "none")

\* a disconnect that failed and left the client connected, then one that
\* succeeded
C24_Witness ==
    /\ caller = "disconnect"
    /\ clientPc = "returned"
    /\ callResult.kind = "return"
    /\ ~isConnected
    /\ Len(endpointCalls) = 3
    /\ endpointCalls[1] = SdkCall("connect", 1, FALSE, TRUE)
    /\ endpointCalls[2] = SdkCall("disconnect", 2, TRUE, FALSE)
    /\ endpointCalls[3] = SdkCall("disconnect", 3, TRUE, TRUE)

\* testConnection returning true although its disconnect failed
C24_TestTrueDespiteDisconnect ==
    /\ testResult = "true"
    /\ endpointCalls = <<SdkCall("connect", 1, FALSE, TRUE),
                         SdkCall("disconnect", 1, TRUE, FALSE)>>

\* testConnection returning false
C24_TestFalse ==
    /\ testResult = "false"
    /\ callResult.kind = "none"
    /\ endpointCalls = <<SdkCall("connect", 1, FALSE, FALSE)>>

----------------------------------------------------------------------------
(* The image route: the action of api.eyepop-process, in its earlier        *)
(* version (client connected first, disconnect in finally) and its current  *)
(* version (validation first, disconnect on the success path).              *)

\* JSON.parse on the strings the form fields take here: whether it returns,
\* the kind of value, the array, and the keys holding a truthy value
JSONParse(str) ==
    CASE str = "[\"What is the main color?\"]" ->
            [ok |-> TRUE, kind |-> "array", a |-> <<"What is the main color?">>, keys |-> {}]
      [] str = "{\"a\":1}" -> [ok |-> TRUE, kind |-> "object", a |-> <<>>, keys |-> {"a"}]
      [] str = "{\"productTitle\":true,\"altText\":true,\"productTags\":false}" ->
            [ok |-> TRUE, kind |-> "object", a |-> <<>>, keys |-> {"productTitle", "altText"}]
      [] str = "null" -> [ok |-> TRUE, kind |-> "null", a |-> <<>>, keys |-> {}]
      [] OTHER -> [ok |-> FALSE, kind |-> "none", a |-> <<>>, keys |-> {}]

FormFields(image, questionsString, contentConfig, secretKey, envSecretKey, formProductType) ==
    [image |-> image, questions |-> questionsString, contentConfig |-> contentConfig,
     secretKey |-> secretKey, envSecretKey |-> envSecretKey, productType |-> formProductType]

\* the requests: image is a file, absent, or a text field; "" is an absent
\* field or an unset environment variable
FormRequests ==
    {FormFields(image, qs, cc, sk, env, "t-shirt") :
        image \in {"file", "null", "text"},
        qs \in {"", "[\"What is the main color?\"]", "{\"a\":1}", "not json"},
        cc \in {"", "{\"productTitle\":true,\"altText\":true,\"productTags\":false}",
                "{bad", "null"},
        sk \in {"", "sk_form"},
        env \in {"", "sk_env"}}

\* what the vision service does: the message each call rejects with, "" when
\* it resolves
ServiceScripts ==
    {[connect |-> c, process |-> p, disconnect |-> d] :
        c \in {"", "Unauthorized"},
        p \in {"", "bad image", "network timeout"},
        d \in {"", "already closed"}}

\* a method called on the route's EyePopClient
ClientCall(method, resolved, options) ==
    [method |-> method, resolved |-> resolved, checkboxQuestions |-> options]

RouteResponse(status, requiresAuth, error) ==
    [status |-> status, requiresAuth |-> requiresAuth, error |-> error]

\* the response of the current version's catch block
CatchResponse(message) ==
    LET lower == ToLowerCase(message)
    IN IF Contains(lower, "auth") \/ Contains(lower, "unauthorized")
          \/ Contains(lower, "api key") \/ Contains(lower, "secret")
       THEN RouteResponse(401, TRUE, "Authentication failed. Please check your EyePop credentials.")
       ELSE IF Contains(lower, "connect") \/ Contains(lower, "network")
       THEN RouteResponse(503, FALSE,
                "Failed to connect to EyePop service. Please check your network and try again.")
       ELSE RouteResponse(500, FALSE, message)

ImageIsFile == formData.image = "file"
FinalSecretKey == IF formData.secretKey # "" THEN formData.secretKey ELSE formData.envSecretKey
QuestionsMalformed == formData.questions # "" /\ ~JSONParse(formData.questions).ok

\* the questions the action parses
QuestionsOf(str, version) ==
    IF str = "" THEN <<>>
    ELSE IF version = "current" /\ JSONParse(str).kind # "array" THEN <<>>
    ELSE JSONParse(str).a

\* the keys of configMapping, in the order of Object.entries
ConfigMapping ==
    <<"productTitle", "productDescription", "colorVariant", "seoDescription",
      "productTags", "altText">>

\* the enabled options of the content configuration, none when the field is
\* absent, is not JSON, or holds null
CheckboxQuestionsOf(str) ==
    IF str = "" \/ ~JSONParse(str).ok \/ JSONParse(str).kind = "null" THEN <<>>
    ELSE SelectSeq(ConfigMapping, LAMBDA key : key \in JSONParse(str).keys)

InitRoute ==
    /\ questions = <<>>
    /\ productType = JSUndefined
    /\ checkboxQuestions = <<>>
    /\ categories = <<>>
    /\ pop = NoPop
    /\ ParseIdle
    /\ ClientIdle
    /\ callCount = 0
    /\ testResult = "none"
    /\ ExportIdle
    /\ routeVersion \in {"earlier", "current"}
    /\ formData \in FormRequests
    /\ eyepop \in ServiceScripts
    /\ clientCalls = <<>>
    /\ routeResponse = [status |-> 0]
    /\ routePc = "start"
    /\ WebhookIdle
    /\ WizardIdle

\* faulty variant: the secret key is not checked before the client is made
ValidationResponse_NoKeyCheck(version) ==
    IF ~ImageIsFile
    THEN RouteResponse(400, FALSE, "Image file is required and must be a valid file.")
    ELSE IF QuestionsMalformed
    THEN RouteResponse(400, FALSE, "Invalid JSON format for questions.")
    ELSE [status |-> 0]

\* the validation of the form, in the order of the action: the response of
\* the first check that fails, status 0 when all pass
ValidationResponse(version) ==
    IF ~ImageIsFile
    THEN RouteResponse(400, FALSE, "Image file is required and must be a valid file.")
    ELSE IF version = "current" /\ FinalSecretKey = ""
    THEN RouteResponse(401, TRUE,
                       "EyePop authentication required. Please provide your Secret Key.")
    ELSE IF QuestionsMalformed
    THEN RouteResponse(400, FALSE, "Invalid JSON format for questions.")
    ELSE [status |-> 0]

\* the earlier version makes its client at once; the current version parses
\* and validates the form, and makes its client when every check passed
routeStart ==
    /\ routePc = "start"
    /\ IF routeVersion = "current" /\ ValidationResponse("current").status # 0
       THEN /\ routeResponse' = ValidationResponse("current")
            /\ routePc' = "done"
            /\ UNCHANGED <<clientCalls, questions, productType, checkboxQuestions>>
       ELSE /\ clientCalls' = <<ClientCall("new EyePopClient", TRUE, <<>>)>>
            /\ routePc' = "connect"
            /\ IF routeVersion = "current"
               THEN /\ questions' = QuestionsOf(formData.questions, "current")
                    /\ checkboxQuestions' = CheckboxQuestionsOf(formData.contentConfig)
                    /\ productType' = JSString(formData.productType)
               ELSE UNCHANGED <<questions, productType, checkboxQuestions>>
            /\ UNCHANGED routeResponse
    /\ UNCHANGED <<categories, pop, routeVersion, formData, eyepop>>
    /\ UNCHANGED <<parseVars, clientVars, callCount, testResult, exportVars, webhookVars,
                   wizardVars>>

\* await eyePopClient.connect(); the current version rethrows a failure as
\* "EyePop connection failed: ..." into its catch block, the earlier version
\* answers 500 and goes through finally
routeConnect ==
    /\ routePc = "connect"
    /\ clientCalls' = Append(clientCalls, ClientCall("connect", eyepop.connect = "", <<>>))
    /\ isConnected' = (eyepop.connect = "")
    /\ IF eyepop.connect = ""
       THEN /\ routePc' = "process"
            /\ UNCHANGED routeResponse
       ELSE IF routeVersion = "current"
       THEN /\ routeResponse' = CatchResponse("EyePop connection failed: " \o eyepop.connect)
            /\ routePc' = "done"
       ELSE /\ routeResponse' = RouteResponse(500, FALSE, eyepop.connect)
            /\ routePc' = "finally"
    /\ UNCHANGED <<routeVersion, formData, eyepop>>
    /\ UNCHANGED <<endpointCalls, caller, images, outcomes, imageIdx, batchResults,
                   clientPc, callResult, builds>>
    /\ UNCHANGED <<promptVars, parseVars, callCount, testResult, exportVars, webhookVars,
                   wizardVars>>

\* the image is sent to the client; the earlier version parses and validates
\* the form only now
routeProcess ==
    /\ routePc = "process"
    /\ IF routeVersion = "earlier" /\ ValidationResponse("earlier").status # 0
       THEN /\ routeResponse' = ValidationResponse("earlier")
            /\ routePc' = "finally"
            /\ UNCHANGED <<clientCalls, questions>>
       ELSE /\ questions' = QuestionsOf(formData.questions, routeVersion)
            /\ clientCalls' = Append(clientCalls,
                                     ClientCall(IF routeVersion = "current"
                                                THEN "processImageData"
                                                ELSE "processImageStream",
                                                eyepop.process = "", checkboxQuestions))
            /\ IF eyepop.process = ""
               THEN /\ routePc' = IF routeVersion = "current" THEN "disconnect" ELSE "finally"
                    /\ routeResponse' = IF routeVersion = "current" THEN routeResponse
                                        ELSE RouteResponse(200, FALSE, "")
               ELSE IF routeVersion = "current"
               THEN /\ routeResponse' = CatchResponse(eyepop.process)
                    /\ routePc' = "done"
               ELSE /\ routeResponse' = RouteResponse(500, FALSE, eyepop.process)
                    /\ routePc' = "finally"
    /\ UNCHANGED <<productType, checkboxQuestions, categories, pop>>
    /\ UNCHANGED <<routeVersion, formData, eyepop>>
    /\ UNCHANGED <<parseVars, clientVars, callCount, testResult, exportVars, webhookVars,
                   wizardVars>>

\* await eyePopClient.disconnect(): step 12 of the current version, the
\* finally block of the earlier one
routeDisconnect ==
    /\ routePc \in {"disconnect", "finally"}
    /\ clientCalls' = Append(clientCalls,
                             ClientCall("disconnect", ~isConnected \/ eyepop.disconnect = "",
                                        <<>>))
    /\ isConnected' = (isConnected /\ eyepop.disconnect # "")
    /\ routePc' = IF routePc = "disconnect" THEN "respond" ELSE "done"
    /\ UNCHANGED <<routeVersion, formData, eyepop, routeResponse>>
    /\ UNCHANGED <<endpointCalls, caller, images, outcomes, imageIdx, batchResults,
                   clientPc, callResult, builds>>
    /\ UNCHANGED <<promptVars, parseVars, callCount, testResult, exportVars, webhookVars,
                   wizardVars>>

\* the current version builds its structured response and returns it
routeRespond ==
    /\ routePc = "respond"
    /\ routeResponse' = RouteResponse(200, FALSE, "")
    /\ routePc' = "done"
    /\ UNCHANGED <<routeVersion, formData, eyepop, clientCalls>>
    /\ UNCHANGED <<promptVars, parseVars, clientVars, callCount, testResult, exportVars,
                   webhookVars, wizardVars>>

NextRoute ==
    \/ routeStart
    \/ routeConnect
    \/ routeProcess
    \/ routeDisconnect
    \/ routeRespond

SpecRoute == InitRoute /\ [][NextRoute]_vars

----------------------------------------------------------------------------
(* Claims about the image route.                                            *)

CallsOfMethod(method) ==
    {c \in 1..Len(clientCalls) : clientCalls[c].method = method}

ConnectSucceeded ==
    \E c \in CallsOfMethod("connect") : clientCalls[c].resolved

\* C25: a request that connected its EyePop client has called disconnect on
\* it, after the connect, by the time its response is returned, on the
\* success path and on every error path.
C25_DisconnectsBeforeResponse ==
    (routePc = "done" /\ ConnectSucceeded) =>
        \E c \in CallsOfMethod("connect"), d \in CallsOfMethod("disconnect") : c < d

\* the same for the earlier version alone
C25_EarlierVersionDisconnects ==
    (routePc = "done" /\ routeVersion = "earlier") => CallsOfMethod("disconnect") # {}

\* the current version answering 500 with its client still connected
C25_LeftConnected ==
    /\ routePc = "done"
    /\ routeVersion = "current"
    /\ routeResponse.status = 500
    /\ routeResponse.error = "bad image"
    /\ isConnected
    /\ Len(clientCalls) = 3
    /\ clientCalls[2] = ClientCall("connect", TRUE, <<>>)
    /\ clientCalls[3].method = "processImageData"
    /\ CallsOfMethod("disconnect") = {}

\* C26: in the current version a request without a valid image file is
\* answered 400, one with a file but no secret key in the form or the
\* environment 401 with requiresAuth, one with malformed questions JSON 400,
\* each without a client being made or connected; no client is made before
\* these checks have passed; and a contentConfig that is not JSON is no
\* error: the client is made and connected and the image is processed with
\* an empty list of options.
C26_ValidatesBeforeConnect ==
    /\ ((routeVersion = "current" /\ routePc = "done") =>
            /\ ~ImageIsFile => routeResponse.status = 400 /\ clientCalls = <<>>
            /\ (ImageIsFile /\ FinalSecretKey = "") =>
                  /\ routeResponse.status = 401
                  /\ routeResponse.requiresAuth
                  /\ clientCalls = <<>>
            /\ (ImageIsFile /\ FinalSecretKey # "" /\ QuestionsMalformed) =>
                  routeResponse.status = 400 /\ clientCalls = <<>>
            /\ (ImageIsFile /\ FinalSecretKey # "" /\ ~QuestionsMalformed) =>
                  /\ CallsOfMethod("connect") # {}
                  /\ ConnectSucceeded => CallsOfMethod("processImageData") # {}
                  /\ (formData.contentConfig # "" /\ ~JSONParse(formData.contentConfig).ok) =>
                        \A c \in CallsOfMethod("processImageData") :
                            clientCalls[c].checkboxQuestions = <<>>)
    /\ ((routeVersion = "current" /\ clientCalls # <<>>) =>
            ImageIsFile /\ FinalSecretKey # "" /\ ~QuestionsMalformed)

\* a request whose contentConfig is not JSON, processed and answered 200
C26_Witness ==
    /\ routeVersion = "current"
    /\ routePc = "done"
    /\ formData.contentConfig = "{bad"
    /\ formData.secretKey = ""
    /\ formData.envSecretKey = "sk_env"
    /\ routeResponse.status = 200
    /\ clientCalls[3] = ClientCall("processImageData", TRUE, <<>>)
    /\ clientCalls[4].method = "disconnect"

\* a request without secret key, refused before any client exists
C26_RefusedWithoutClient ==
    /\ routeVersion = "current"
    /\ routePc = "done"
    /\ formData.image = "file"
    /\ FinalSecretKey = ""
    /\ routeResponse.status = 401
    /\ routeResponse.requiresAuth
    /\ clientCalls = <<>>

(* The two components end to end: the prompt is built, the vision service   *)
(* answers with one class item per category of the prompt, and the reply is *)
(* parsed.                                                                  *)

ContentOptions ==
    {"productTitle", "productDescription", "colorVariant", "seoDescription",
     "productTags", "altText"}

EchoLabels == {"Blue Jacket", "wool, blue; warm", "null"}

\* how the service names a category in its reply: the category as sent, or
\* its words before the parenthesis
EchoStyles == {"verbatim", "name"}

NameOfCategory(category) ==
    LET i == FirstIndexOf(category, {"("})
    IN IF i = 0 THEN category ELSE Trim(SubSeq(category, 1, i - 1))

EchoOf(category, style) ==
    IF style = "verbatim" THEN category ELSE NameOfCategory(category)

InitEcho ==
    /\ questions \in {<<>>, <<"What is the main color?">>}
    /\ productType \in ProductTypes
    /\ checkboxQuestions \in {InDeclarationOrder(S) : S \in SUBSET ContentOptions}
    /\ categories = <<>>
    /\ pop = NoPop
    /\ ParseIdle
    /\ ClientIdle
    /\ AppIdle

\* the reply to the prompt: one result whose classes name the categories of
\* the prompt, in order, each with a label
serviceEchoes ==
    /\ pop # NoPop
    /\ processedResults = <<>>
    /\ Len(categories) > 0
    /\ \E style \in EchoStyles, label \in EchoLabels :
          processedResults' =
              <<[hasClasses |-> TRUE,
                 classes |-> [i \in 1..Len(categories) |->
                                 Item(JSString(EchoOf(categories[i], style)),
                                      JSString(label))],
                 text |-> JSUndefined]>>
    /\ UNCHANGED <<parsedResponse, combinedText, parsePc, classIdx, lines, lineIdx,
                   usedFallback>>
    /\ UNCHANGED <<promptVars, clientVars, appVars>>

\* return this.parseVisualIntelligenceResponse(processedResults)
parseEcho ==
    /\ processedResults # <<>>
    /\ parsePc = "idle"
    /\ parsedResponse' = parseVisualIntelligenceResponse(processedResults)
    /\ parsePc' = "done"
    /\ UNCHANGED <<processedResults, combinedText, classIdx, lines, lineIdx, usedFallback>>
    /\ UNCHANGED <<promptVars, clientVars, appVars>>

NextEcho ==
    \/ createVisualIntelligencePop
    \/ serviceEchoes
    \/ parseEcho

SpecEcho == InitEcho /\ [][NextEcho]_vars

\* the key the export route reads for a content option
CanonicalKeyOf(o) ==
    CASE o = "productTitle" -> "product_title"
      [] o = "productDescription" -> "product_description"
      [] o = "colorVariant" -> "color_variant"
      [] o = "seoDescription" -> "seo_description"
      [] o = "productTags" -> "product_tags"
      [] o = "altText" -> "alt_text"

\* the value a label is stored as under the option's key
StoredLabel(o, label) ==
    IF label = "null" THEN JSNull
    ELSE IF o = "productTags" THEN JSArray(SplitTags(label)) ELSE JSString(label)

\* every class item of the parsed reply that names option o as echoed in the
\* given style is stored under o's canonical key
EchoStored(style) ==
    parsePc = "done" =>
        \A i \in 1..Len(processedResults[1].classes), o \in ContentOptions :
            LET classItem == processedResults[1].classes[i]
            IN classItem.category = JSString(EchoOf(PhraseOf(o), style)) =>
                  /\ CanonicalKeyOf(o) \in DOMAIN parsedResponse.extractedData
                  /\ parsedResponse.extractedData[CanonicalKeyOf(o)]
                        = StoredLabel(o, classItem.classLabel.s)

\* C22: a class item whose category is, verbatim, the phrase the prompt
\* builder emits for a content option is stored under that option's canonical
\* key (product_title, product_description, color_variant, seo_description,
\* product_tags, alt_text), product_tags as an array.
C22_EchoRoundTrip == EchoStored("verbatim")

\* the same for a reply that names each category by its words before the
\* parenthesis
C22_NameEchoRoundTrip == EchoStored("name")

\* the tags phrase echoed verbatim: the label is kept as one string under a
\* key made of the whole phrase, and product_tags is absent
C22_VerbatimTagsLost ==
    /\ parsePc = "done"
    /\ checkboxQuestions = <<"productTags">>
    /\ processedResults[1].classes[Len(categories)].category
          = JSString("product tags (5-10 relevant product tags and keywords, comma-separated)")
    /\ "product_tags" \notin DOMAIN parsedResponse.extractedData
    /\ FieldIn(parsedResponse.extractedData,
               "product_tags_510_relevant_product_tags_and_keywords_commaseparated")
          = JSString("wool, blue; warm")

(* The export route: the action of api.shopify-export.ts, which creates one *)
(* draft product per analysis result.                                       *)

MaxResults == 2

\* a || b
Or(a, b) == IF Truthy(a) THEN a ELSE b

RECURSIVE NatToString(_)
NatToString(n) ==
    IF n < 10 THEN Ch(Digits, n + 1)
    ELSE NatToString(n \div 10) \o Ch(Digits, (n % 10) + 1)

RECURSIVE Pow10(_)
Pow10(exp) == IF exp = 0 THEN 1 ELSE 10 * Pow10(exp - 1)

RECURSIVE PadZeros(_, _)
PadZeros(ds, width) == IF Len(ds) >= width THEN ds ELSE PadZeros("0" \o ds, width)

\* String(value), numbers included: the shortest decimal literal
StringOf(v) ==
    IF v.t = "number"
    THEN LET abs == IF v.m < 0 THEN 0 - v.m ELSE v.m
             int == NatToString(abs \div Pow10(v.e))
         IN (IF v.m < 0 THEN "-" ELSE "")
            \o (IF v.e = 0 THEN int
                ELSE int \o "." \o PadZeros(NatToString(abs % Pow10(v.e)), v.e))
    ELSE IF v.t = "NaN" THEN "NaN" ELSE ToJSString(v)

\* str.substring(0, n)
Substring0(str, n) == SubSeq(str, 1, IF Len(str) < n THEN Len(str) ELSE n)

\* an element of the request's analysisResults: JSON null, or an object with
\* an id, a rawJson (its fields undefined when there is none) and top-level
\* fields
AnalysisResult(id, extractedData, rawImageSrc, rawProductType, imageSrc, resultProductType) ==
    [isNull |-> FALSE, id |-> id,
     rawJson |-> [extractedData |-> extractedData, imageSrc |-> rawImageSrc,
                  productType |-> rawProductType],
     imageSrc |-> imageSrc, productType |-> resultProductType]

NullResult ==
    [AnalysisResult(JSUndefined, <<>>, JSUndefined, JSUndefined, JSUndefined, JSUndefined)
        EXCEPT !.isNull = TRUE]

DataUrl == JSString("data:image/png;base64,AAAA")

AllNullFields ==
    [k \in {"product_title", "product_description", "product_tags", "seo_description",
            "alt_text", "price"} |-> JSNull]

FullFields ==
    [k \in {"product_title", "product_description", "product_tags", "seo_description",
            "alt_text", "price"} |->
        CASE k = "product_title" -> JSString("Blue Jacket")
          [] k = "product_description" -> JSString("Warm wool.\nFully lined.")
          [] k = "product_tags" -> JSArray(<<"wool", "blue">>)
          [] k = "seo_description" -> JSString("Warm blue wool jacket")
          [] k = "alt_text" -> JSString("A blue jacket")
          [] k = "price" -> JSNumber(1999, 2)]

PartialFields ==
    [k \in {"product_description", "product_tags", "price"} |->
        CASE k = "product_description" -> JSString("Soft.")
          [] k = "product_tags" -> JSArray(<<>>)
          [] k = "price" -> JSNull]

AnalysisResultKinds ==
    { NullResult,
      AnalysisResult(JSString("shirt.jpg"), <<>>, JSUndefined, JSUndefined,
                     JSUndefined, JSUndefined),
      AnalysisResult(JSString("hat.png"), AllNullFields, DataUrl, JSString("hat"),
                     JSUndefined, JSUndefined),
      AnalysisResult(JSString("jacket.jpg"), FullFields, JSUndefined, JSUndefined,
                     DataUrl, JSString("jacket")),
      AnalysisResult(JSUndefined, PartialFields, JSUndefined, JSUndefined,
                     JSUndefined, JSUndefined) }

\* what the Admin API does for one item: the staged upload yields a resource
\* url or fails, productCreate returns a product, user errors or neither, or
\* the request rejects, and the later price update resolves or rejects
AdminReply(upload, productCreate, variantsUpdate) ==
    [upload |-> upload, productCreate |-> productCreate, variantsUpdate |-> variantsUpdate]

AdminReplyKinds ==
    { AdminReply("url", "product", "ok"),
      AdminReply("null", "userErrors", "ok"),
      AdminReply("url", "noProduct", "ok"),
      AdminReply("url", "rejects", "ok"),
      AdminReply("url", "product", "rejects") }

UserErrorMessage == "Title can't be blank"
RejectMessage == "request to the Admin API failed"

\* result.rawJson?.extractedData?.product_title || result.id || `Product ${i + 1}`
FileNameOf(result, n) ==
    Or(Or(FieldIn(result.rawJson.extractedData, "product_title"), result.id),
       JSString("Product " \o NatToString(n)))

\* the product type the action resolves
ProductTypeOf(result) ==
    Or(Or(result.rawJson.productType, result.productType), JSString("General"))

ImageSrcOf(result) == Or(result.rawJson.imageSrc, result.imageSrc)

\* faulty variant: a missing title sent as an empty title
ProductTitleOf_NoDefault(result, n) ==
    LET title == FieldIn(result.rawJson.extractedData, "product_title")
    IN IF title.t = "string" THEN title.s ELSE ""

\* extractedData.product_title || `AI Generated: ${fileName}`
ProductTitleOf(result, n) ==
    StringOf(Or(FieldIn(result.rawJson.extractedData, "product_title"),
                JSString("AI Generated: " \o StringOf(FileNameOf(result, n)))))

ProductDescriptionOf(result) ==
    StringOf(Or(FieldIn(result.rawJson.extractedData, "product_description"),
                JSString("AI-generated product description.")))

\* the tags sent: extractedData.product_tags, split when a string, replaced
\* by the default pair when missing, not an array or empty
ProductTagsOf(result) ==
    LET default == <<StringOf(ProductTypeOf(result)), "AI-generated">>
        given == ExportSplitTags(Or(FieldIn(result.rawJson.extractedData, "product_tags"),
                                    JSArray(default)))
    IN IF given.t # "array" \/ Len(given.a) = 0 THEN default ELSE given.a

\* the price kept for the variant update
VariantPriceOf(result) ==
    LET price == FieldIn(result.rawJson.extractedData, "price")
        parsed == ParseFloat(StringOf(price))
    IN IF price.t \in {"undefined", "null"} \/ parsed.t = "NaN" THEN "0.00"
       ELSE StringOf(parsed)

\* the input of the productCreate mutation
ProductInput(result, n) ==
    LET productDescription == ProductDescriptionOf(result)
    IN [title |-> ProductTitleOf(result, n),
        descriptionHtml |->
            "<p>" \o Join(Split(productDescription, {"\n"}), "</p><p>") \o "</p>",
        productType |-> StringOf(ProductTypeOf(result)),
        vendor |-> "EyePop AI Generated",
        tags |-> ProductTagsOf(result),
        status |-> "DRAFT",
        seo |-> [title |-> Substring0(ProductTitleOf(result, n), 70),
                 description |->
                    Substring0(StringOf(Or(FieldIn(result.rawJson.extractedData,
                                                   "seo_description"),
                                           JSString(Substring0(productDescription, 320)))),
                               320)]]

\* a mutation sent to the Admin API for the n-th item
GraphqlCall(mutation, n, input, price) ==
    [mutation |-> mutation, item |-> n, input |-> input, price |-> price]

NoInput == [title |-> ""]

\* whether the action uploads the item's image before creating the product
UploadsImage(result) ==
    Truthy(ImageSrcOf(result)) /\ StartsWith(StringOf(ImageSrcOf(result)), "data:")

\* the mutations one iteration sends, in order
CallsOfItem(result, reply, n) ==
    LET uploaded == UploadsImage(result) /\ reply.upload = "url"
        created == reply.productCreate = "product"
    IN (IF UploadsImage(result)
        THEN <<GraphqlCall("stagedUploadsCreate", n, NoInput, "")>> ELSE <<>>)
       \o <<GraphqlCall("productCreate", n, ProductInput(result, n), "")>>
       \o (IF created /\ uploaded
           THEN <<GraphqlCall("productCreateMedia", n, NoInput, "")>> ELSE <<>>)
       \o (IF created /\ VariantPriceOf(result) # "0.00"
           THEN <<GraphqlCall("productVariantsBulkUpdate", n, NoInput,
                              VariantPriceOf(result))>>
           ELSE <<>>)

\* the error of the iteration, "" when the product was created and no later
\* request rejected
ItemError(result, reply) ==
    CASE reply.productCreate = "rejects" -> RejectMessage
      [] reply.productCreate = "userErrors" ->
            "Product creation failed: " \o UserErrorMessage
      [] reply.productCreate = "noProduct" -> "Product creation failed - no product returned"
      [] reply.variantsUpdate = "rejects" /\ VariantPriceOf(result) # "0.00" -> RejectMessage
      [] OTHER -> ""

\* an entry of the response's results
ExportEntry(result, reply, n) ==
    [fileName |-> StringOf(FileNameOf(result, n)),
     success |-> ItemError(result, reply) = "",
     error |-> ItemError(result, reply)]

ExportResponse(status, success, entries, total, successful, failed) ==
    [status |-> status, success |-> success, results |-> entries,
     summary |-> [total |-> total, successful |-> successful, failed |-> failed]]

\* a request has arrived: its body holds an analysisResults array or none,
\* and the Admin API's behaviour for each item is fixed in advance
InitExport ==
    /\ questions = <<>>
    /\ productType = JSUndefined
    /\ checkboxQuestions = <<>>
    /\ categories = <<>>
    /\ pop = NoPop
    /\ ParseIdle
    /\ ClientIdle
    /\ callCount = 0
    /\ testResult = "none"
    /\ requestBody \in
          {[isArray |-> FALSE, analysisResults |-> <<>>]}
          \cup {[isArray |-> TRUE, analysisResults |-> rs] :
                    rs \in SeqsUpTo(AnalysisResultKinds, MaxResults)}
    /\ adminReplies \in [1..Len(requestBody.analysisResults) -> AdminReplyKinds]
    /\ exportIdx = 0
    /\ exportResults = <<>>
    /\ successCount = 0
    /\ failCount = 0
    /\ graphqlCalls = <<>>
    /\ exportResponse = [status |-> 0]
    /\ exportPc = "start"
    /\ RouteIdle
    /\ WebhookIdle
    /\ WizardIdle

\* if (!analysisResults || !Array.isArray(analysisResults)) return json(..., 400)
exportValidate ==
    /\ exportPc = "start"
    /\ IF requestBody.isArray
       THEN /\ exportPc' = "loop"
            /\ UNCHANGED exportResponse
       ELSE /\ exportPc' = "done"
            /\ exportResponse' = ExportResponse(400, FALSE, <<>>, 0, 0, 1)
    /\ UNCHANGED <<requestBody, adminReplies, exportIdx, exportResults, successCount,
                   failCount, graphqlCalls>>
    /\ UNCHANGED <<promptVars, parseVars, clientVars, callCount, testResult,
                   routeVars, webhookVars, wizardVars>>

\* one iteration of the loop over analysisResults: the file name read outside
\* the item's try block, then the item's mutations and its one results.push
exportItem ==
    /\ exportPc = "loop"
    /\ exportIdx < Len(requestBody.analysisResults)
    /\ LET n == exportIdx + 1
           result == requestBody.analysisResults[n]
           reply == adminReplies[n]
       IN IF result.isNull
          THEN /\ exportResponse' = ExportResponse(500, FALSE, <<>>, 0, 0, 1)
               /\ exportPc' = "done"
               /\ UNCHANGED <<exportIdx, exportResults, successCount, failCount,
                              graphqlCalls>>
          ELSE /\ exportIdx' = n
               /\ graphqlCalls' = graphqlCalls \o CallsOfItem(result, reply, n)
               /\ exportResults' = Append(exportResults, ExportEntry(result, reply, n))
               /\ successCount' = successCount
                                    + (IF ItemError(result, reply) = "" THEN 1 ELSE 0)
               /\ failCount' = failCount
                                    + (IF ItemError(result, reply) = "" THEN 0 ELSE 1)
               /\ UNCHANGED <<exportResponse, exportPc>>
    /\ UNCHANGED <<requestBody, adminReplies>>
    /\ UNCHANGED <<promptVars, parseVars, clientVars, callCount, testResult,
                   routeVars, webhookVars, wizardVars>>

\* the summary and return json({success: true, ...})
exportReturn ==
    /\ exportPc = "loop"
    /\ exportIdx = Len(requestBody.analysisResults)
    /\ exportResponse' = ExportResponse(200, TRUE, exportResults,
                                        Len(requestBody.analysisResults),
                                        successCount, failCount)
    /\ exportPc' = "done"
    /\ UNCHANGED <<requestBody, adminReplies, exportIdx, exportResults, successCount,
                   failCount, graphqlCalls>>
    /\ UNCHANGED <<promptVars, parseVars, clientVars, callCount, testResult,
                   routeVars, webhookVars, wizardVars>>

NextExport ==
    \/ exportValidate
    \/ exportItem
    \/ exportReturn

SpecExport == InitExport /\ [][NextExport]_vars

----------------------------------------------------------------------------
(* Claims about the export route.                                           *)

\* the field is absent from the item's extracted data or holds null
MissingField(result, key) ==
    FieldIn(result.rawJson.extractedData, key).t \in {"undefined", "null"}

\* the productCreate calls sent for the n-th item
ProductCreatesFor(n) ==
    {c \in 1..Len(graphqlCalls) :
        graphqlCalls[c].mutation = "productCreate" /\ graphqlCalls[c].item = n}

PriceUpdatesFor(n) ==
    {c \in 1..Len(graphqlCalls) :
        graphqlCalls[c].mutation = "productVariantsBulkUpdate" /\ graphqlCalls[c].item = n}

\* the name the defaults are built from when the item has no title
DefaultFileName(result, n) ==
    IF result.id.t = "string" /\ result.id.s # "" THEN result.id.s
    ELSE "Product " \o NatToString(n)

DefaultProductType(result) ==
    IF Truthy(result.rawJson.productType) THEN result.rawJson.productType.s
    ELSE IF Truthy(result.productType) THEN result.productType.s ELSE "General"

\* C21: every analysis result the loop has taken had exactly one
\* productCreate submitted, with status DRAFT, whatever its extracted data
\* lacks; a title that is absent or null is sent as "AI Generated: " followed
\* by the file name, a description that is absent or null as
\* "AI-generated product description.", tags that are absent or null as the
\* pair of the product type and "AI-generated", and for a price that is
\* absent or null no price update is sent, so that the product keeps the
\* price 0.00; the item's entry reports a failure only when the Admin API
\* refused or rejected a request.
C21_MissingFieldDefaults ==
    \A n \in 1..exportIdx :
        LET result == requestBody.analysisResults[n]
        IN /\ Cardinality(ProductCreatesFor(n)) = 1
           /\ \A c \in ProductCreatesFor(n) :
                 LET input == graphqlCalls[c].input
                 IN /\ input.status = "DRAFT"
                    /\ MissingField(result, "product_title") =>
                          input.title = "AI Generated: " \o DefaultFileName(result, n)
                    /\ MissingField(result, "product_description") =>
                          /\ input.descriptionHtml = "<p>AI-generated product description.</p>"
                          /\ MissingField(result, "seo_description") =>
                                input.seo.description = "AI-generated product description."
                    /\ MissingField(result, "product_tags") =>
                          input.tags = <<DefaultProductType(result), "AI-generated">>
           /\ MissingField(result, "price") => PriceUpdatesFor(n) = {}
           /\ exportResults[n].success
                 = (adminReplies[n].productCreate = "product"
                    /\ (adminReplies[n].variantsUpdate = "ok" \/ PriceUpdatesFor(n) = {}))

\* an item whose six fields are all null, exported as a draft with the
\* defaults, and an item without extracted data and without id after it
C21_Witness ==
    /\ exportPc = "done"
    /\ exportResponse.status = 200
    /\ Len(requestBody.analysisResults) = 2
    /\ requestBody.analysisResults[1].rawJson.extractedData = AllNullFields
    /\ requestBody.analysisResults[2].rawJson.extractedData = <<>>
    /\ requestBody.analysisResults[2].id = JSString("shirt.jpg")
    /\ \E c \in ProductCreatesFor(1) :
          /\ graphqlCalls[c].input.title = "AI Generated: hat.png"
          /\ graphqlCalls[c].input.tags = <<"hat", "AI-generated">>
          /\ graphqlCalls[c].input.status = "DRAFT"
    /\ \E c \in ProductCreatesFor(2) :
          /\ graphqlCalls[c].input.title = "AI Generated: shirt.jpg"
          /\ graphqlCalls[c].input.tags = <<"General", "AI-generated">>
    /\ exportResults[1].success
    /\ exportResults[2].success
    /\ PriceUpdatesFor(1) = {}

\* the response to a request whose body holds an analysisResults array
ExportAnswered == exportPc = "done" /\ requestBody.isArray

OneEntryPerInput ==
    /\ Len(exportResponse.results) = Len(requestBody.analysisResults)
    /\ \A n \in 1..Len(requestBody.analysisResults) :
          /\ exportResponse.results[n].fileName
                = StringOf(FileNameOf(requestBody.analysisResults[n], n))
          /\ exportResponse.results[n].success
                = (ItemError(requestBody.analysisResults[n], adminReplies[n]) = "")
    /\ exportResponse.summary.total = Len(requestBody.analysisResults)
    /\ exportResponse.summary.successful + exportResponse.summary.failed
          = exportResponse.summary.total
    /\ exportResponse.summary.failed
          = Cardinality({n \in 1..Len(exportResponse.results) :
                            ~exportResponse.results[n].success})

\* C27: the response to a request whose body holds an analysisResults array
\* has one result entry per input, in input order, and a summary with total =
\* number of inputs and successful + failed = total, each failed item counted
\* once and no failed item stopping the later ones.
C27_OneEntryPerInput == ExportAnswered => OneEntryPerInput

\* the same for the requests none of whose items is JSON null
C27_ExceptNullItems ==
    (ExportAnswered /\ \A n \in 1..Len(requestBody.analysisResults) :
                            ~requestBody.analysisResults[n].isNull)
        => OneEntryPerInput

\* a failed item followed by an exported one
C27_FailureThenSuccess ==
    /\ ExportAnswered
    /\ exportResponse.status = 200
    /\ Len(exportResponse.results) = 2
    /\ ~exportResponse.results[1].success
    /\ exportResponse.results[2].success
    /\ exportResponse.summary = [total |-> 2, successful |-> 1, failed |-> 1]

\* a null item after an exported one: no entry at all in the response
C27_NullItemLosesAll ==
    /\ ExportAnswered
    /\ Len(requestBody.analysisResults) = 2
    /\ requestBody.analysisResults[2].isNull
    /\ Len(graphqlCalls) > 0
    /\ exportResponse.status = 500
    /\ exportResponse.results = <<>>
    /\ exportResponse.summary = [total |-> 0, successful |-> 0, failed |-> 1]

----------------------------------------------------------------------------
(* The three webhook handlers: app uninstalled (app._index.tsx 259-292),    *)
(* scopes update (part_010) and GDPR (part_009).  A request is the handler   *)
(* it is routed to, its x-shopify-hmac-sha256 header, its raw body, and what *)
(* authenticate.webhook and the session table do when they are reached.      *)

SHOPIFY_API_SECRET == "shpss_1"

\* the value of headers.get for a header the request does not carry
NoHeader == "null"

RawPayloads == {"{}", "{\"current\":[\"read_products\"]}"}

\* crypto.createHmac("SHA256", secret).update(rawPayload).digest("base64"):
\* a keyed digest, different for different keys and for different bodies
HmacDigest(secret, rawPayload) == "hmac[" \o secret \o "](" \o rawPayload \o ")"

Signatures ==
    {NoHeader, ""}
        \cup {HmacDigest(SHOPIFY_API_SECRET, p) : p \in RawPayloads}
        \cup {HmacDigest("shpss_2", p) : p \in RawPayloads}

WebhookRoutes == {"app/uninstalled", "app/scopes_update", "gdpr"}

GdprTopics == {"customers/data_request", "customers/redact", "shop/redact"}

TopicsOf(route) ==
    IF route = "gdpr" THEN GdprTopics \cup {"orders/create"} ELSE {route}

\* payload.current of the parsed body (undefined when the body has none)
CurrentOf(rawPayload) ==
    IF rawPayload = "{\"current\":[\"read_products\"]}" THEN JSArray(<<JSString("read_products")>>)
    ELSE JSUndefined

WebhookRequests ==
    UNION {[route : {r}, signature : Signatures, rawPayload : RawPayloads,
            topic : TopicsOf(r), session : BOOLEAN, authenticates : BOOLEAN,
            dbFails : BOOLEAN] : r \in WebhookRoutes}

WebhookResponse(kind, status, text) == [kind |-> kind, status |-> status, text |-> text]

NoResponse == WebhookResponse("none", 0, "")

\* a rejection that is not a Response of the handler's own making
Rejection(text) == WebhookResponse("throw", 0, text)

SessionOp(op, scope) == [op |-> op, shop |-> "shop.myshopify.com", scope |-> scope]

InitWebhook ==
    /\ questions = <<>>
    /\ productType = JSUndefined
    /\ checkboxQuestions = <<>>
    /\ categories = <<>>
    /\ pop = NoPop
    /\ ParseIdle
    /\ ClientIdle
    /\ callCount = 0
    /\ testResult = "none"
    /\ ExportIdle
    /\ RouteIdle
    /\ webhookRequest \in WebhookRequests
    /\ authenticateCalls = 0
    /\ sessionOps = <<>>
    /\ webhookResponse = NoResponse
    /\ webhookPc = "verify"
    /\ WizardIdle

\* faulty variant: only the presence of the header is checked
VerifyHmac_PresenceOnly(request) ==
    IF request.signature \in {NoHeader, ""}
    THEN WebhookResponse("return", 401, "Missing HMAC signature")
    ELSE NoResponse

\* the response of the signature check, NoResponse when the request passes
VerifyHmac(request) ==
    LET signature == request.signature
        generatedSignature == HmacDigest(SHOPIFY_API_SECRET, request.rawPayload)
    IN  IF signature \in {NoHeader, ""}
        THEN WebhookResponse("return", 401, "Missing HMAC signature")
        ELSE IF signature # generatedSignature
        THEN WebhookResponse("return", 401, "Invalid HMAC signature")
        ELSE NoResponse

webhookVerify ==
    /\ webhookPc = "verify"
    /\ IF VerifyHmac(webhookRequest) # NoResponse
       THEN /\ webhookResponse' = VerifyHmac(webhookRequest)
            /\ webhookPc' = "done"
       ELSE /\ webhookPc' = "authenticate"
            /\ UNCHANGED webhookResponse
    /\ UNCHANGED <<webhookRequest, authenticateCalls, sessionOps>>
    /\ UNCHANGED <<promptVars, parseVars, clientVars, callCount, testResult, exportVars,
                   routeVars, wizardVars>>

webhookAuthenticate ==
    /\ webhookPc = "authenticate"
    /\ authenticateCalls' = authenticateCalls + 1
    /\ IF webhookRequest.authenticates
       THEN /\ webhookPc' = "handle"
            /\ UNCHANGED webhookResponse
       ELSE /\ webhookResponse' = Rejection("authenticate.webhook")
            /\ webhookPc' = "done"
    /\ UNCHANGED <<webhookRequest, sessionOps>>
    /\ UNCHANGED <<promptVars, parseVars, clientVars, callCount, testResult, exportVars,
                   routeVars, wizardVars>>

\* app uninstalled, lines 287-291
UninstalledOutcome(request) ==
    IF ~request.session
    THEN [ops |-> <<>>, response |-> WebhookResponse("return", 200, "")]
    ELSE [ops |-> <<SessionOp("deleteMany", "")>>,
          response |-> IF request.dbFails THEN Rejection("db.session.deleteMany")
                       ELSE WebhookResponse("return", 200, "")]

\* scopes update, lines 31-42
ScopesUpdateOutcome(request) ==
    LET current == CurrentOf(request.rawPayload)
    IN  IF ~request.session
        THEN [ops |-> <<>>, response |-> WebhookResponse("return", 200, "")]
        ELSE IF current = JSUndefined
        THEN [ops |-> <<>>, response |-> Rejection("TypeError")]
        ELSE [ops |-> <<SessionOp("update", "read_products")>>,
              response |-> IF request.dbFails THEN Rejection("db.session.update")
                           ELSE WebhookResponse("return", 200, "")]

\* what the switch of the GDPR handler does, lines 35-113
GdprSwitch(request) ==
    IF request.topic \in {"customers/data_request", "customers/redact"}
    THEN [ops |-> <<>>,
          response |-> WebhookResponse("return", 200, "GDPR webhook processed successfully")]
    ELSE IF request.topic = "shop/redact"
    THEN [ops |-> <<SessionOp("deleteMany", "")>>,
          response |-> IF request.dbFails
                       THEN WebhookResponse("throw", 500, "Shop redaction failed")
                       ELSE WebhookResponse("return", 200,
                                            "GDPR webhook processed successfully")]
    ELSE [ops |-> <<>>,
          response |-> WebhookResponse("throw", 400,
                                       "Unknown GDPR topic: " \o request.topic)]

\* the try of lines 34-118: whatever the switch throws is caught at 115
GdprOutcome(request) ==
    LET inner == GdprSwitch(request)
    IN  IF inner.response.kind = "throw"
        THEN [ops |-> inner.ops,
              response |-> WebhookResponse("throw", 500, "GDPR webhook processing failed")]
        ELSE inner

HandlerOutcome(request) ==
    IF request.route = "app/uninstalled" THEN UninstalledOutcome(request)
    ELSE IF request.route = "app/scopes_update" THEN ScopesUpdateOutcome(request)
    ELSE GdprOutcome(request)

webhookHandle ==
    /\ webhookPc = "handle"
    /\ sessionOps' = sessionOps \o HandlerOutcome(webhookRequest).ops
    /\ webhookResponse' = HandlerOutcome(webhookRequest).response
    /\ webhookPc' = "done"
    /\ UNCHANGED <<webhookRequest, authenticateCalls>>
    /\ UNCHANGED <<promptVars, parseVars, clientVars, callCount, testResult, exportVars,
                   routeVars, wizardVars>>

NextWebhook ==
    \/ webhookVerify
    \/ webhookAuthenticate
    \/ webhookHandle

SpecWebhook == InitWebhook /\ [][NextWebhook]_vars

----------------------------------------------------------------------------
(* Claims about the webhook handlers.                                       *)

\* the header is absent, or differs from the digest of the raw body under
\* the app secret
BadSignature ==
    \/ webhookRequest.signature = NoHeader
    \/ webhookRequest.signature # HmacDigest(SHOPIFY_API_SECRET, webhookRequest.rawPayload)

\* C28: in each webhook handler a request without the x-shopify-hmac-sha256
\* header, or whose header is not the base64 HMAC-SHA256 of the raw body
\* under the app secret, is answered 401; authenticate.webhook is never
\* called for it and no session row is read, updated or deleted.
C28_UnsignedRefused ==
    BadSignature =>
        /\ authenticateCalls = 0
        /\ sessionOps = <<>>
        /\ webhookPc \in {"verify", "done"}
        /\ webhookPc = "done" =>
              /\ webhookResponse.kind = "return"
              /\ webhookResponse.status = 401

\* a body signed under the app secret, sent with another body, is refused
C28_Witness ==
    /\ webhookPc = "done"
    /\ webhookRequest.signature = HmacDigest(SHOPIFY_API_SECRET, "{}")
    /\ webhookRequest.rawPayload # "{}"
    /\ webhookRequest.session
    /\ webhookResponse.status = 401
    /\ authenticateCalls = 0
    /\ sessionOps = <<>>

\* a correctly signed request does reach authenticate.webhook and the table
C28_SignedReachesTable ==
    /\ webhookPc = "done"
    /\ ~BadSignature
    /\ authenticateCalls = 1
    /\ sessionOps # <<>>

VerifiedGdpr ==
    /\ webhookPc = "done"
    /\ webhookRequest.route = "gdpr"
    /\ ~BadSignature
    /\ webhookRequest.authenticates

\* C29: a verified GDPR webhook whose topic is none of customers/data_request,
\* customers/redact and shop/redact ends with a 400 response, and each of the
\* three known topics ends with a 200 response.
C29_UnknownTopicRefused ==
    VerifiedGdpr =>
        IF webhookRequest.topic \in GdprTopics
        THEN webhookResponse.status = 200
        ELSE webhookResponse.status = 400

\* the known topics are acknowledged with 200 while the session table works
C29_KnownTopicsAcknowledged ==
    (VerifiedGdpr /\ webhookRequest.topic \in GdprTopics /\ ~webhookRequest.dbFails)
        => /\ webhookResponse.kind = "return"
           /\ webhookResponse.status = 200

\* the 400 thrown for an unknown topic is caught by the handler's own catch
C29_UnknownTopicGets500 ==
    /\ VerifiedGdpr
    /\ webhookRequest.topic = "orders/create"
    /\ ~webhookRequest.dbFails
    /\ GdprSwitch(webhookRequest).response.status = 400
    /\ webhookResponse = WebhookResponse("throw", 500, "GDPR webhook processing failed")

----------------------------------------------------------------------------
(* SmartProductGenerator.handleStartProcessing (part_008 155-318): one run   *)
(* over the selected files.  Each step is one call of a state setter or the  *)
(* fetch of one file; serverReplies[n] is what /api/eyepop-process does for  *)
(* the n-th fetch.                                                           *)

MaxFiles == 2

\* ImageUploader.handleFiles appends the new files to the selection and
\* never compares names, so a selection may hold the same name twice
FileNames == {"shirt.jpg", "mug.jpg"}

FileSelections == UNION {[1..n -> FileNames] : n \in 0..MaxFiles}

ReplyKinds == {"success", "unsuccessful", "httpError", "requiresAuth", "networkError"}

ProcessingItem(id, status, progress, message) ==
    [id |-> id, status |-> status, progress |-> progress, message |-> message]

EyePopResponse(id, summary) == [id |-> id, summary |-> summary]

\* the message shown for a reply that is not a success
ErrorMessageOf(reply) ==
    IF reply = "httpError" THEN "HTTP error! Status: 500"
    ELSE IF reply = "unsuccessful" THEN "Processing failed to return valid results."
    ELSE "An unexpected error occurred."

\* currentRunItems.map(item => item.id === currentFileId ? {...item, ...update} : item)
UpdateItems(items, currentFileId, status, progress, message) ==
    [k \in 1..Len(items) |->
        IF items[k].id = currentFileId
        THEN ProcessingItem(items[k].id, status, progress, message)
        ELSE items[k]]

InitWizard ==
    /\ questions = <<>>
    /\ productType \in {JSString("shirt"), JSString("  ")}
    /\ checkboxQuestions = <<>>
    /\ categories = <<>>
    /\ pop = NoPop
    /\ ParseIdle
    /\ ClientIdle
    /\ callCount = 0
    /\ testResult = "none"
    /\ ExportIdle
    /\ RouteIdle
    /\ WebhookIdle
    /\ selectedFiles \in FileSelections
    /\ authCredentials \in {"null", "secretKey"}
    /\ serverReplies \in [1..Len(selectedFiles) -> ReplyKinds]
    /\ processingItems = <<>>
    /\ allProcessedResults = <<>>
    /\ analysisResults \in {<<>>, <<EyePopResponse("earlier.jpg", "An earlier run.")>>}
    /\ isProcessing = FALSE
    /\ isAuthenticated = TRUE
    /\ currentStep = 3
    /\ fetches = <<>>
    /\ fileIdx = 0
    /\ wizardPc = "idle"

\* lines 155-170
handleStartProcessing ==
    /\ wizardPc = "idle"
    /\ IF Len(selectedFiles) = 0 \/ Trim(productType.s) = ""
       THEN /\ wizardPc' = "returned"
            /\ UNCHANGED <<processingItems, allProcessedResults, analysisResults,
                           isProcessing, currentStep, fileIdx>>
       ELSE /\ isProcessing' = TRUE
            /\ currentStep' = 4
            /\ analysisResults' = <<>>
            /\ processingItems' =
                  [k \in 1..Len(selectedFiles) |->
                      ProcessingItem(selectedFiles[k], "pending", 0, "")]
            /\ allProcessedResults' = <<>>
            /\ fileIdx' = 1
            /\ wizardPc' = "uploading"
    /\ UNCHANGED <<selectedFiles, authCredentials, serverReplies, isAuthenticated, fetches>>
    /\ UNCHANGED <<promptVars, parseVars, clientVars, callCount, testResult, exportVars,
                   routeVars, webhookVars>>

\* lines 178-186
setUploading ==
    /\ wizardPc = "uploading"
    /\ processingItems' = UpdateItems(processingItems, selectedFiles[fileIdx],
                                      "uploading", 30, "")
    /\ wizardPc' = "processing"
    /\ UNCHANGED <<selectedFiles, authCredentials, serverReplies, allProcessedResults,
                   analysisResults, isProcessing, isAuthenticated, currentStep, fetches,
                   fileIdx>>
    /\ UNCHANGED <<promptVars, parseVars, clientVars, callCount, testResult, exportVars,
                   routeVars, webhookVars>>

\* lines 188-212: the form is built, the item is set to processing and the
\* file is posted
startFetch ==
    /\ wizardPc = "processing"
    /\ processingItems' = UpdateItems(processingItems, selectedFiles[fileIdx],
                                      "processing", 60, "")
    /\ fetches' = Append(fetches, [position |-> fileIdx, image |-> selectedFiles[fileIdx],
                                   secretKey |-> authCredentials])
    /\ wizardPc' = "response"
    /\ UNCHANGED <<selectedFiles, authCredentials, serverReplies, allProcessedResults,
                   analysisResults, isProcessing, isAuthenticated, currentStep, fileIdx>>
    /\ UNCHANGED <<promptVars, parseVars, clientVars, callCount, testResult, exportVars,
                   routeVars, webhookVars>>

\* lines 214-308: the reply of the fetch
handleResponse ==
    /\ wizardPc = "response"
    /\ LET reply == serverReplies[fileIdx]
           currentFileId == selectedFiles[fileIdx]
       IN  IF reply = "requiresAuth"
           THEN /\ isAuthenticated' = FALSE
                /\ authCredentials' = "null"
                /\ isProcessing' = FALSE
                /\ wizardPc' = "returned"
                /\ UNCHANGED <<processingItems, allProcessedResults, fileIdx>>
           ELSE /\ processingItems' =
                      IF reply = "success"
                      THEN UpdateItems(processingItems, currentFileId,
                                       "success", 100, "")
                      ELSE UpdateItems(processingItems, currentFileId,
                                       "error", 100, ErrorMessageOf(reply))
                /\ allProcessedResults' =
                      Append(allProcessedResults,
                             IF reply = "success"
                             THEN EyePopResponse(currentFileId,
                                                 "Analysis completed successfully.")
                             ELSE EyePopResponse(currentFileId,
                                                 "Error: " \o ErrorMessageOf(reply)))
                /\ fileIdx' = fileIdx + 1
                /\ wizardPc' = IF fileIdx < Len(selectedFiles) THEN "uploading" ELSE "finish"
                /\ UNCHANGED <<isAuthenticated, authCredentials, isProcessing>>
    /\ UNCHANGED <<selectedFiles, serverReplies, analysisResults, currentStep, fetches>>
    /\ UNCHANGED <<promptVars, parseVars, clientVars, callCount, testResult, exportVars,
                   routeVars, webhookVars>>

\* lines 311-317
finishProcessing ==
    /\ wizardPc = "finish"
    /\ analysisResults' = allProcessedResults
    /\ isProcessing' = FALSE
    /\ currentStep' = IF Len(allProcessedResults) > 0 THEN 5 ELSE currentStep
    /\ wizardPc' = "returned"
    /\ UNCHANGED <<selectedFiles, authCredentials, serverReplies, processingItems,
                   allProcessedResults, isAuthenticated, fetches, fileIdx>>
    /\ UNCHANGED <<promptVars, parseVars, clientVars, callCount, testResult, exportVars,
                   routeVars, webhookVars>>

NextWizard ==
    \/ handleStartProcessing
    \/ setUploading
    \/ startFetch
    \/ handleResponse
    \/ finishProcessing

SpecWizard == InitWizard /\ [][NextWizard]_vars

----------------------------------------------------------------------------
(* Claims about handleStartProcessing.                                      *)

StatusRank(status) ==
    IF status = "pending" THEN 0
    ELSE IF status = "uploading" THEN 1
    ELSE IF status = "processing" THEN 2
    ELSE 3

\* the n-th fetch posts the n-th selected file, and a file is posted only
\* when every file before it has been answered
SentInSelectionOrder ==
    /\ \A n \in 1..Len(fetches) :
          /\ fetches[n].position = n
          /\ fetches[n].image = selectedFiles[n]
    /\ Len(fetches) <= Len(allProcessedResults) + 1

\* within a run no item goes back to an earlier status
ItemsMoveForward ==
    (wizardPc # "idle") =>
        \A k \in 1..Len(processingItems) :
            StatusRank(processingItems'[k].status) >= StatusRank(processingItems[k].status)

RejectedForAuth ==
    /\ wizardPc = "returned"
    /\ fetches # <<>>
    /\ serverReplies[Len(fetches)] = "requiresAuth"

FinishedRun ==
    /\ wizardPc = "returned"
    /\ fetches # <<>>
    /\ ~RejectedForAuth

\* every item is success or error at 100, one result per selected file in
\* selection order, isProcessing false, step 5
FinishedState ==
    /\ \A k \in 1..Len(processingItems) :
          /\ processingItems[k].status \in {"success", "error"}
          /\ processingItems[k].progress = 100
    /\ Len(processingItems) = Len(selectedFiles)
    /\ Len(analysisResults) = Len(selectedFiles)
    /\ \A k \in 1..Len(selectedFiles) : analysisResults[k].id = selectedFiles[k]
    /\ isProcessing = FALSE
    /\ currentStep = 5

\* the run stopped at the rejected fetch
RejectedState ==
    /\ \A n \in 1..Len(fetches) - 1 : serverReplies[n] # "requiresAuth"
    /\ isAuthenticated = FALSE
    /\ isProcessing = FALSE
    /\ analysisResults = <<>>

RunOutcome ==
    /\ SentInSelectionOrder
    /\ FinishedRun => FinishedState
    /\ RejectedForAuth => RejectedState

\* C30: in one run of handleStartProcessing the files are sent one at a time
\* in selection order and each file's item only moves forward through
\* pending, uploading, processing, then success or error; a run that ends
\* without an authentication rejection leaves every item success or error
\* at 100, one analysisResults entry per selected file, isProcessing false
\* and step 5; a reply with requiresAuth stops the run at once, with no later
\* file sent, isAuthenticated and isProcessing false and analysisResults
\* empty.
C30_RunOfStartProcessing == [] RunOutcome /\ [][ItemsMoveForward]_vars

DistinctNames ==
    \A k, n \in 1..Len(selectedFiles) : selectedFiles[k] = selectedFiles[n] => k = n

\* the same, for selections in which no two files have the same name
C30_DistinctNames ==
    [] (DistinctNames => RunOutcome) /\ [][DistinctNames => ItemsMoveForward]_vars

\* with two files of one name, the item of the answered first file is back
\* at uploading while the second file is being sent
C30_FinishedItemUploadsAgain ==
    /\ wizardPc = "processing"
    /\ fileIdx = 2
    /\ selectedFiles[1] = selectedFiles[2]
    /\ Len(allProcessedResults) = 1
    /\ serverReplies[1] = "success"
    /\ processingItems[1].status = "uploading"
    /\ processingItems[1].progress = 30

\* a rejected second file: the first file's result is dropped with the run
C30_StoppedAtRejection ==
    /\ RejectedForAuth
    /\ Len(selectedFiles) = 2
    /\ Len(fetches) = 2
    /\ Len(allProcessedResults) = 1
    /\ analysisResults = <<>>
    /\ currentStep = 4

====
